---------------------------- MODULE Spec2Model ----------------------------
(***************************************************************************)
(* Model of the rule-based contract understanding pipeline of              *)
(* ravencode/contract-analysis-tool: ClauseParser, RiskAnalyzer,           *)
(* ComplianceChecker, LegalEntityExtractor, SimilarityMatcher and          *)
(* ContractClassifier.                                                     *)
(*                                                                         *)
(* Every analyzer is an object whose entry operations are called with a    *)
(* text; one action models one whole call.  A text is modelled by the      *)
(* pieces the code itself cuts it into (lines, sentences, paragraphs),     *)
(* each piece drawn from a small catalogue of concrete strings; what a     *)
(* regular expression of the source matches is tabulated over that         *)
(* catalogue.  Scores are exact decimals, kept as integers in units of     *)
(* 1/10000 (clause level) so that thresholds and rounding are exact.       *)
(***************************************************************************)
EXTENDS Integers, Sequences, FiniteSets, TLC

VARIABLES
    phase,              \* "ready": analyzers constructed, no call in hand; "returned": a call has returned
    cp_text,            \* ClauseParser: the text of the last parse_clauses call, as its lines
    cp_forest,          \* ClauseParser: what that call returned
    ra_op,              \* RiskAnalyzer: the operation called last ("none" before any call)
    ra_text,            \* RiskAnalyzer: the text argument, as paragraphs of sentences
    ra_clauses,         \* RiskAnalyzer: the clause dicts handed in (one dict for analyze_clause)
    ra_result,          \* RiskAnalyzer: the ClauseRisk or ContractRisk returned
    cc_type,            \* ComplianceChecker: the contract_type argument ("" when absent)
    cc_text,            \* ComplianceChecker: the text argument, as the set of its sentences
    cc_report,          \* ComplianceChecker: the ComplianceReport returned
    ee_text,            \* LegalEntityExtractor: the text argument, as its sentences
    ee_ner,             \* LegalEntityExtractor: whether the optional spaCy model is loaded
    ee_entities,        \* LegalEntityExtractor: the mapping extract_all_entities returned
    ee_currency_patterns, \* LegalEntityExtractor: self.currency_patterns of the instance
    sm_type,            \* SimilarityMatcher: the contract_type argument
    sm_text,            \* SimilarityMatcher: the contract_text argument, as its sentences
    sm_report,          \* SimilarityMatcher: the TemplateComparisonReport returned
    kc_text,            \* ContractClassifier: the text argument, as its sentences
    kc_result           \* ContractClassifier: the ClassificationResult returned

cpVars == <<cp_text, cp_forest>>
raVars == <<ra_op, ra_text, ra_clauses, ra_result>>
ccVars == <<cc_type, cc_text, cc_report>>
eeVars == <<ee_text, ee_ner, ee_entities, ee_currency_patterns>>
smVars == <<sm_type, sm_text, sm_report>>
kcVars == <<kc_text, kc_result>>
vars == <<phase, cpVars, raVars, ccVars, eeVars, smVars, kcVars>>

\* What a call of one analyzer leaves alone: the other analyzers.
besidesParser == <<raVars, ccVars, eeVars, smVars, kcVars>>
besidesRisk == <<cpVars, ccVars, eeVars, smVars, kcVars>>
besidesCompliance == <<cpVars, raVars, eeVars, smVars, kcVars>>
besidesEntities == <<cpVars, raVars, ccVars, smVars, kcVars>>
besidesMatcher == <<cpVars, raVars, ccVars, eeVars, kcVars>>
besidesClassifier == <<cpVars, raVars, ccVars, eeVars, smVars>>

\* The state of each analyzer when no call of it is in hand.
IdleParser == cp_text = <<>> /\ cp_forest = [clauses |-> <<>>, roots |-> <<>>]
IdleRisk == ra_op = "none" /\ ra_text = <<>> /\ ra_clauses = <<>> /\ ra_result = <<>>
NoReport ==
    [overall_status |-> "none", issues |-> <<>>, compliant_areas |-> <<>>,
     missing_requirements |-> <<>>, recommendations |-> <<>>, laws_checked |-> <<>>]
IdleCompliance == cc_type = "" /\ cc_text = {} /\ cc_report = NoReport
NoEntities ==
    [parties |-> <<>>, dates |-> <<>>, amounts |-> <<>>, durations |-> <<>>,
     jurisdictions |-> <<>>, obligations |-> <<>>, rights |-> <<>>, prohibitions |-> <<>>,
     deliverables |-> <<>>, notice_periods |-> <<>>]
\* self.currency_patterns: the currency_type of each pattern, in list order,
\* as __init__ builds it
currency_patterns == <<"INR", "USD", "EUR", "GBP", "INR_LAKH", "INR_CRORE">>

IdleEntities ==
    /\ ee_text = <<>> /\ ee_ner = FALSE /\ ee_entities = NoEntities
    /\ ee_currency_patterns = currency_patterns
NoComparison ==
    [contract_type |-> "", overall_similarity |-> 0, matched_clauses |-> <<>>,
     missing_clauses |-> <<>>, extra_clauses |-> <<>>, quality_score |-> 0,
     recommendations |-> <<>>]
IdleMatcher == sm_type = "" /\ sm_text = <<>> /\ sm_report = NoComparison
NoClassification == [contract_type |-> "", confidence |-> 0, indicators_found |-> <<>>, reasoning |-> ""]
IdleClassifier == kc_text = <<>> /\ kc_result = NoClassification
Idle ==
    /\ IdleParser /\ IdleRisk /\ IdleCompliance /\ IdleEntities /\ IdleMatcher
    /\ IdleClassifier

-----------------------------------------------------------------------------
(* Generic helpers                                                         *)

SetMax(S) == CHOOSE x \in S : \A y \in S : y <= x

RECURSIVE SeqsUpTo(_, _)
\* all sequences over S of length 0..n
SeqsUpTo(S, n) ==
    IF n = 0 THEN {<<>>}
    ELSE LET shorter == SeqsUpTo(S, n - 1)
         IN  shorter \cup {Append(s, x) : s \in {t \in shorter : Len(t) = n - 1}, x \in S}

\* all sequences over S of length 1..n
NonEmptySeqs(S, n) == SeqsUpTo(S, n) \ {<<>>}

-----------------------------------------------------------------------------
(* ClauseParser  (src/src/nlp/clause_parser.py)                            *)

\* Longest text, in lines, handed to parse_clauses.
MaxLines == 4

\* The lines a text is made of.  The last one is a whitespace-only line.
Lines ==
    { "1. DEFINITIONS", "2. PAYMENT TERMS", "1.1 Scope of work",
      "(a) first item", "(i) roman one", "(ii) roman two",
      "The fee is Rs. 500 per month.", "Payment terms apply", "  " }

\* str.strip() on the lines of the catalogue
strip(line) == IF line = "  " THEN "" ELSE line

\* self.header_patterns, in declaration order: the level of each pattern and
\* the catalogue lines re.match(pattern, line, re.IGNORECASE) accepts.
header_patterns ==
    << [level |-> 1, accepts |-> {"1. DEFINITIONS", "2. PAYMENT TERMS"}],   \* ^(\d+)\.\s+([A-Z][A-Z\s]+)$
       [level |-> 1, accepts |-> {"1. DEFINITIONS", "2. PAYMENT TERMS"}],   \* ^(\d+)\.\s+([A-Z][a-zA-Z\s]+)$
       [level |-> 2, accepts |-> {"1.1 Scope of work"}],                    \* ^(\d+\.\d+)\s+(.+)$
       [level |-> 3, accepts |-> {}],                                       \* ^(\d+\.\d+\.\d+)\s+(.+)$
       [level |-> 1, accepts |-> {}],                                       \* ^ARTICLE\s+(\d+)[:\s]+(.+)$
       [level |-> 1, accepts |-> {}],                                       \* ^SECTION\s+(\d+)[:\s]+(.+)$
       [level |-> 1, accepts |-> {}],                                       \* ^CLAUSE\s+(\d+)[:\s]+(.+)$
       [level |-> 2, accepts |-> {"(a) first item", "(i) roman one"}],      \* ^\(([a-z])\)\s+(.+)$
       [level |-> 2, accepts |-> {}],                                       \* ^([a-z])\)\s+(.+)$
       [level |-> 3, accepts |-> {"(i) roman one", "(ii) roman two"}],      \* ^\(([ivxlcdm]+)\)\s+(.+)$
       [level |-> 1, accepts |-> {"Payment terms apply"}],                  \* ^([A-Z][A-Z\s]{3,})$
       [level |-> 1, accepts |-> {}],                                       \* ^SCHEDULE\s+([A-Z\d]+)[:\s]*(.*)$
       [level |-> 1, accepts |-> {}],                                       \* ^ANNEXURE\s+([A-Z\d]+)[:\s]*(.*)$
       [level |-> 1, accepts |-> {}] >>                                     \* ^EXHIBIT\s+([A-Z\d]+)[:\s]*(.*)$

\* groups[1].strip() (groups[0] for a one-group pattern) of the matching pattern
header_title(line) ==
    CASE line = "1. DEFINITIONS"      -> "DEFINITIONS"
      [] line = "2. PAYMENT TERMS"    -> "PAYMENT TERMS"
      [] line = "1.1 Scope of work"   -> "Scope of work"
      [] line = "(a) first item"      -> "first item"
      [] line = "(i) roman one"       -> "roman one"
      [] line = "(ii) roman two"      -> "roman two"
      [] OTHER                        -> line

\* _match_header: the first pattern that accepts the line wins; level 0 stands
\* for the None the code returns when no pattern matches.
_match_header(line) ==
    LET hits == {i \in DOMAIN header_patterns : line \in header_patterns[i].accepts}
    IN  IF hits = {} THEN [title |-> "", level |-> 0]
        ELSE LET first == CHOOSE i \in hits : \A j \in hits : i <= j
             IN  [title |-> header_title(line), level |-> header_patterns[first].level]

\* self.clause_patterns, in declaration order: for each ClauseType the header
\* lines of the catalogue in whose title + ' ' + line, lower-cased, re.search
\* finds one of its patterns.
clause_patterns ==
    << [clause_type |-> "definitions", found_in |-> {"1. DEFINITIONS"}],
       [clause_type |-> "scope_of_work", found_in |-> {"1.1 Scope of work"}],
       [clause_type |-> "payment_terms", found_in |-> {"2. PAYMENT TERMS", "Payment terms apply"}],
       [clause_type |-> "delivery_performance", found_in |-> {}],
       [clause_type |-> "warranties_representations", found_in |-> {}],
       [clause_type |-> "indemnification", found_in |-> {}],
       [clause_type |-> "limitation_of_liability", found_in |-> {}],
       [clause_type |-> "confidentiality", found_in |-> {}],
       [clause_type |-> "intellectual_property", found_in |-> {}],
       [clause_type |-> "term_duration", found_in |-> {}],
       [clause_type |-> "termination", found_in |-> {}],
       [clause_type |-> "dispute_resolution", found_in |-> {}],
       [clause_type |-> "force_majeure", found_in |-> {}],
       [clause_type |-> "assignment", found_in |-> {}],
       [clause_type |-> "notices", found_in |-> {}],
       [clause_type |-> "governing_law", found_in |-> {}],
       [clause_type |-> "entire_agreement", found_in |-> {}],
       [clause_type |-> "amendment", found_in |-> {}],
       [clause_type |-> "severability", found_in |-> {}],
       [clause_type |-> "waiver", found_in |-> {}],
       [clause_type |-> "non_compete", found_in |-> {}],
       [clause_type |-> "non_solicitation", found_in |-> {}],
       [clause_type |-> "penalty", found_in |-> {}],
       [clause_type |-> "insurance", found_in |-> {}],
       [clause_type |-> "compliance", found_in |-> {}],
       [clause_type |-> "audit_rights", found_in |-> {}],
       [clause_type |-> "data_protection", found_in |-> {}] >>

\* _detect_clause_type(title + ' ' + line) for a header line: the first type
\* in table order with a pattern found, else ClauseType.UNKNOWN
_detect_clause_type(line) ==
    LET hits == {i \in DOMAIN clause_patterns : line \in clause_patterns[i].found_in}
    IN  IF hits = {} THEN "unknown"
        ELSE clause_patterns[CHOOSE i \in hits : \A j \in hits : i <= j].clause_type

\* Clause(...) as parse_clauses constructs it.  clause_id n stands for the
\* string "clause_n", parent_id 0 for None; sub_clauses holds clause_ids.
NewClause(counter, clause_type, title, level, line_num) ==
    [clause_id |-> counter, clause_type |-> clause_type, title |-> title,
     content |-> <<>>, level |-> level,
     parent_id |-> 0, start_position |-> line_num, end_position |-> 0,
     sub_clauses |-> <<>>]

NoClause == NewClause(0, "unknown", "", 0, 0)

\* current_clause with the accumulated body lines and its end line stored
CloseClause(current_clause, current_content, end_position) ==
    [current_clause EXCEPT !.content = current_content, !.end_position = end_position]

RECURSIVE ScanLines(_, _, _, _, _, _)
\* The loop of parse_clauses over the lines (i is 1-based, line_num = i - 1),
\* followed by the save of the last clause.  Returns the flat clause list.
ScanLines(lines, i, clauses, current_clause, current_content, clause_counter) ==
    IF i > Len(lines)
    THEN IF current_clause.clause_id # 0
         THEN Append(clauses, CloseClause(current_clause, current_content, Len(lines) - 1))
         ELSE clauses
    ELSE LET line == strip(lines[i])
             header_match == _match_header(line)
         IN  IF line = ""
             THEN ScanLines(lines, i + 1, clauses, current_clause, current_content, clause_counter)
             ELSE IF header_match.level # 0
             THEN ScanLines(lines, i + 1,
                            IF current_clause.clause_id # 0
                            THEN Append(clauses, CloseClause(current_clause, current_content, (i - 1) - 1))
                            ELSE clauses,
                            NewClause(clause_counter + 1, _detect_clause_type(line),
                                      header_match.title, header_match.level, i - 1),
                            <<>>, clause_counter + 1)
             ELSE ScanLines(lines, i + 1, clauses, current_clause,
                            Append(current_content, line), clause_counter)

\* A mutant of FindParentLevel: the search starts at the clause's own level.
FindParentLevelFromOwn(parent_stack, level) ==
    LET found == {pl \in 1..level : pl \in DOMAIN parent_stack}
    IN  IF found = {} THEN 0 ELSE SetMax(found)

\* "for parent_level in range(level - 1, 0, -1): if parent_level in
\* parent_stack: ... break": the greatest stacked level below `level`, 0 if none.
FindParentLevel(parent_stack, level) ==
    LET found == {pl \in 1..(level - 1) : pl \in DOMAIN parent_stack}
    IN  IF found = {} THEN 0 ELSE SetMax(found)

\* A mutant of UpdateStack: the entries of the levels above are kept.
UpdateStackNoClear(parent_stack, level, k) ==
    [l \in (DOMAIN parent_stack) \cup {level} |->
        IF l = level THEN k ELSE parent_stack[l]]

\* "parent_stack[level] = clause", then every entry of a level above is deleted.
\* parent_stack maps a level to the index of the clause it holds.
UpdateStack(parent_stack, level, k) ==
    [l \in {x \in (DOMAIN parent_stack) \cup {level} : x <= level} |->
        IF l = level THEN k ELSE parent_stack[l]]

RECURSIVE AttachFrom(_, _, _)
\* The loop of _build_hierarchy from the k-th clause on.
AttachFrom(clauses, parent_stack, k) ==
    IF k > Len(clauses) THEN clauses
    ELSE LET level == clauses[k].level
             pl    == FindParentLevel(parent_stack, level)
             linked ==
                 IF pl = 0 THEN clauses
                 ELSE LET p == parent_stack[pl]
                      IN  [clauses EXCEPT
                              ![k].parent_id = clauses[p].clause_id,
                              ![p].sub_clauses = Append(@, clauses[k].clause_id)]
         IN  AttachFrom(linked, UpdateStack(parent_stack, level, k), k + 1)

\* A mutant of _build_hierarchy: every clause is returned, linked or not.
_build_hierarchy_all_returned(clauses) ==
    LET linked == AttachFrom(clauses, << >>, 1)
    IN  [clauses |-> linked,
         roots   |-> linked]

\* _build_hierarchy: the clauses with their links, and the returned roots.
_build_hierarchy(clauses) ==
    LET linked == AttachFrom(clauses, << >>, 1)
    IN  [clauses |-> linked,
         roots   |-> SelectSeq(linked, LAMBDA c : c.parent_id = 0)]

parse_clauses(text) ==
    _build_hierarchy(ScanLines(text, 1, <<>>, NoClause, <<>>, 0))

\* The result before any call.
NoForest == [clauses |-> <<>>, roots |-> <<>>]

InitParser ==
    /\ phase = "ready"
    /\ Idle

\* One call of ClauseParser.parse_clauses; text.split('\n') is never empty.
ParseClauses ==
    /\ phase = "ready"
    /\ \E text \in NonEmptySeqs(Lines, MaxLines) :
        /\ cp_text' = text
        /\ cp_forest' = parse_clauses(text)
    /\ phase' = "returned"
    /\ UNCHANGED besidesParser

\* The caller is done with the returned forest; the parser keeps nothing of it.
ReleaseParser ==
    /\ phase = "returned"
    /\ phase' = "ready"
    /\ cp_text' = <<>>
    /\ cp_forest' = NoForest
    /\ UNCHANGED besidesParser

NextParser == ParseClauses \/ ReleaseParser

SpecParser == InitParser /\ [][NextParser]_vars

\* The clause of the forest with the given id.
ClauseById(forest, id) == CHOOSE c \in {forest.clauses[i] : i \in DOMAIN forest.clauses} : c.clause_id = id

-----------------------------------------------------------------------------
\* C1: in the forest parse_clauses returns, every clause that has a parent has
\* a level strictly greater than its parent's, and every clause's sub_clauses
\* are in ascending document order (ascending start_position).
C1_HierarchyInvariant ==
    \A i \in DOMAIN cp_forest.clauses :
        LET c == cp_forest.clauses[i]
        IN  /\ c.parent_id # 0 => c.level > ClauseById(cp_forest, c.parent_id).level
            /\ \A a, b \in DOMAIN c.sub_clauses :
                   a < b => ClauseById(cp_forest, c.sub_clauses[a]).start_position
                              < ClauseById(cp_forest, c.sub_clauses[b]).start_position

\* A parse with a three-level chain and a clause holding two children.
C1_Witness ==
    /\ \E i \in DOMAIN cp_forest.clauses : Len(cp_forest.clauses[i].sub_clauses) >= 2
    /\ \E i \in DOMAIN cp_forest.clauses :
          /\ cp_forest.clauses[i].level = 3
          /\ cp_forest.clauses[i].parent_id # 0
          /\ ClauseById(cp_forest, cp_forest.clauses[i].parent_id).parent_id # 0

\* C12: for a text whose only header lines are numbered top-level headers,
\* parse_clauses returns exactly one root clause per header, in document
\* order, each of level 1, its content the non-blank body lines between the
\* header and the next header (joined by spaces), and its type the one the
\* type table gives the header: definitions for "1. DEFINITIONS",
\* payment_terms for "2. PAYMENT TERMS".  Of the catalogue's lines two are
\* written as numbered top-level headers and four in another header form
\* (nested number, letter, roman numeral).
C12_NumberedHeaderSegmentation ==
    LET NumberedHeaders == {"1. DEFINITIONS", "2. PAYMENT TERMS"}
        OtherHeaders == {"1.1 Scope of work", "(a) first item", "(i) roman one", "(ii) roman two"}
    IN
    (cp_text # <<>> /\ \A i \in DOMAIN cp_text : cp_text[i] \notin OtherHeaders) =>
        LET headers == SelectSeq([i \in DOMAIN cp_text |-> i], LAMBDA i : cp_text[i] \in NumberedHeaders)
            next(k) == IF k < Len(headers) THEN headers[k + 1] ELSE Len(cp_text) + 1
            body(k) == SelectSeq([i \in 1..(next(k) - headers[k] - 1) |-> strip(cp_text[headers[k] + i])],
                                 LAMBDA line : line # "")
            roots == cp_forest.roots
        IN  /\ Len(roots) = Len(headers)
            /\ Len(cp_forest.clauses) = Len(headers)
            /\ \A k \in DOMAIN roots :
                   /\ roots[k].start_position = headers[k] - 1
                   /\ roots[k].level = 1
                   /\ roots[k].content = body(k)
                   /\ roots[k].clause_type =
                          (IF cp_text[headers[k]] = "1. DEFINITIONS" THEN "definitions" ELSE "payment_terms")

\* the header line that opened the clause
HeaderLineOf(text, clause) == strip(text[clause.start_position + 1])

\* the catalogue's headers written with a roman numeral and with a letter
RomanHeaders == {"(i) roman one", "(ii) roman two"}
LetteredHeaders == {"(a) first item"}

\* C23: every header written with a roman numeral in parentheses opens a
\* level-3 clause and every header written with a letter in parentheses a
\* level-2 clause, so two consecutive roman items are siblings (they hang
\* under the same clause) and not parent and child.
C23_RomanHeadersLevelThree ==
    LET clauses == cp_forest.clauses
    IN  /\ \A k \in DOMAIN clauses :
              /\ HeaderLineOf(cp_text, clauses[k]) \in RomanHeaders => clauses[k].level = 3
              /\ HeaderLineOf(cp_text, clauses[k]) \in LetteredHeaders => clauses[k].level = 2
        /\ \A k \in DOMAIN clauses :
              (/\ k < Len(clauses)
               /\ HeaderLineOf(cp_text, clauses[k]) \in RomanHeaders
               /\ HeaderLineOf(cp_text, clauses[k + 1]) \in RomanHeaders)
                  => clauses[k + 1].parent_id = clauses[k].parent_id

\* the number of places a clause_id holds in the returned forest: as an entry
\* of the returned list, and as an entry of some clause's sub_clauses
PlacesInForest(forest, id) ==
    Cardinality({r \in DOMAIN forest.roots : forest.roots[r].clause_id = id})
    + Cardinality({kc \in (DOMAIN forest.clauses) \X (1..Len(forest.clauses)) :
                      /\ kc[2] \in DOMAIN forest.clauses[kc[1]].sub_clauses
                      /\ forest.clauses[kc[1]].sub_clauses[kc[2]] = id})

\* the lines of a text _match_header takes as headers
HeaderLines(text) == {i \in DOMAIN text : _match_header(strip(text[i])).level # 0}

\* C28: every line recognised as a header yields exactly one clause, the
\* clause_ids are pairwise distinct, and every clause holds exactly one place
\* in the returned forest, as a root or in the sub_clauses of one parent; a
\* text without a header yields the empty list.
C28_EachClauseOnceInForest ==
    LET clauses == cp_forest.clauses
    IN  /\ Len(clauses) = Cardinality(HeaderLines(cp_text))
        /\ \A i \in HeaderLines(cp_text) :
               Cardinality({k \in DOMAIN clauses : clauses[k].start_position = i - 1}) = 1
        /\ \A j, k \in DOMAIN clauses : clauses[j].clause_id = clauses[k].clause_id => j = k
        /\ \A k \in DOMAIN clauses : PlacesInForest(cp_forest, clauses[k].clause_id) = 1
        /\ \A r \in DOMAIN cp_forest.roots :
               \E k \in DOMAIN clauses : clauses[k].clause_id = cp_forest.roots[r].clause_id
        /\ HeaderLines(cp_text) = {} => cp_forest.roots = <<>>

\* A parse with at least three clauses, one of them both a child and a
\* parent, of a text that holds a body line as well
C28_Witness ==
    /\ Len(cp_forest.clauses) >= 3
    /\ Len(cp_forest.roots) < Len(cp_forest.clauses)
    /\ \E k \in DOMAIN cp_forest.clauses :
           /\ cp_forest.clauses[k].parent_id # 0
           /\ cp_forest.clauses[k].sub_clauses # <<>>
    /\ \E i \in DOMAIN cp_text : i \notin HeaderLines(cp_text) /\ strip(cp_text[i]) # ""

\* the catalogue's lines written in lower or mixed case
MixedCaseLines == {"Payment terms apply", "The fee is Rs. 500 per month."}

\* C27: a line counts as an ALL-CAPS header only if it is made of upper-case
\* letters and spaces alone; a line in lower or mixed case is never taken as
\* a header, so it opens no clause and closes none: it goes to the content
\* of the clause that is open when it is read.
C27_MixedCaseLineIsBody ==
    LET clauses == cp_forest.clauses
    IN  /\ \A k \in DOMAIN clauses : HeaderLineOf(cp_text, clauses[k]) \notin MixedCaseLines
        /\ \A i \in DOMAIN cp_text :
               (cp_text[i] \in MixedCaseLines /\ \E k \in DOMAIN clauses : clauses[k].start_position < i - 1)
                   => \E k \in DOMAIN clauses :
                          /\ clauses[k].start_position < i - 1
                          /\ i - 1 <= clauses[k].end_position
                          /\ \E c \in DOMAIN clauses[k].content : clauses[k].content[c] = cp_text[i]

\* the clauses before the k-th, in document order, of a level below its own
LowerBefore(clauses, k) == {j \in 1..(k - 1) : clauses[j].level < clauses[k].level}

\* C24: the parent _build_hierarchy gives a clause is the nearest preceding
\* clause in document order whose level is strictly less than the clause's
\* own, and a clause is a root (no parent, in the returned list) exactly when
\* no clause of a lower level precedes it.
C24_ParentIsNearestLowerLevel ==
    LET clauses == cp_forest.clauses
    IN  /\ \A k \in DOMAIN clauses :
              IF LowerBefore(clauses, k) = {}
              THEN clauses[k].parent_id = 0
              ELSE clauses[k].parent_id = clauses[SetMax(LowerBefore(clauses, k))].clause_id
        /\ cp_forest.roots = SelectSeq(clauses, LAMBDA c : c.parent_id = 0)
        /\ \A k \in DOMAIN clauses :
              (\E r \in DOMAIN cp_forest.roots : cp_forest.roots[r].clause_id = clauses[k].clause_id)
                  <=> LowerBefore(clauses, k) = {}

\* A level-3 clause follows a level-1 clause that itself follows a level-2
\* clause: the parent is the level-1 clause, the older level-2 one is passed
\* over; and a later root follows a clause of a higher level.
C24_Witness ==
    LET clauses == cp_forest.clauses
    IN  /\ \E k \in DOMAIN clauses :
              /\ clauses[k].level = 3
              /\ LowerBefore(clauses, k) # {}
              /\ clauses[SetMax(LowerBefore(clauses, k))].level = 1
              /\ clauses[k].parent_id = clauses[SetMax(LowerBefore(clauses, k))].clause_id
              /\ \E i \in 1..(SetMax(LowerBefore(clauses, k)) - 1) : clauses[i].level = 2
        /\ \E k \in DOMAIN clauses :
              k > 1 /\ clauses[k].parent_id = 0 /\ clauses[k - 1].level > clauses[k].level

-----------------------------------------------------------------------------
(* RiskAnalyzer  (src/src/analysis/risk_analyzer.py)                       *)
(*                                                                         *)
(* A clause text is a sequence of sentences of the catalogue Phrases,      *)
(* joined by ". "; a contract text is a sequence of such paragraphs        *)
(* separated by blank lines.  The sentences are lower case, so the two     *)
(* upper-case section splitters never fire.  A score s stands for the      *)
(* decimal s / Scale; arithmetic is exact.                                 *)

\* Scores are kept in units of 1/10000.
Scale == 10000

\* Longest clause list, and longest text in paragraphs, handed to analyze_contract.
MaxClauses == 3
MaxParagraphs == 2

RECURSIVE SeqSum(_)
SeqSum(s) == IF s = <<>> THEN 0 ELSE Head(s) + SeqSum(Tail(s))

Min(a, b) == IF a <= b THEN a ELSE b

\* the first n elements of a list: s[:n]
Take(s, n) == SubSeq(s, 1, Min(n, Len(s)))

\* round(num / den): the nearest integer, a tie going to the even one.
RoundHalfEven(num, den) ==
    LET q == num \div den
        r == num % den
    IN  IF 2 * r < den THEN q
        ELSE IF 2 * r > den THEN q + 1
        ELSE IF q % 2 = 0 THEN q ELSE q + 1

\* self.risk_categories in declaration order: weight in 1/100, base_risk in 1/10.
risk_categories ==
    << [key |-> "penalty_clause",       name |-> "Penalty Clauses",            weight |-> 15, base_risk |-> 6],
       [key |-> "indemnity_clause",     name |-> "Indemnity Clauses",          weight |-> 15, base_risk |-> 5],
       [key |-> "termination_clause",   name |-> "Unilateral Termination",     weight |-> 12, base_risk |-> 7],
       [key |-> "arbitration_clause",   name |-> "Arbitration & Jurisdiction", weight |-> 10, base_risk |-> 4],
       [key |-> "auto_renewal",         name |-> "Auto-Renewal & Lock-in",     weight |-> 10, base_risk |-> 5],
       [key |-> "non_compete",          name |-> "Non-Compete Clauses",        weight |-> 12, base_risk |-> 6],
       [key |-> "ip_transfer",          name |-> "IP Transfer Clauses",        weight |-> 13, base_risk |-> 6],
       [key |-> "liability_limitation", name |-> "Liability Limitation",       weight |-> 8,  base_risk |-> 5],
       [key |-> "confidentiality",      name |-> "Confidentiality & NDA",      weight |-> 5,  base_risk |-> 3],
       [key |-> "unlimited_liability",  name |-> "Unlimited Liability",        weight |-> 15, base_risk |-> 9],
       [key |-> "unilateral_amendment", name |-> "Unilateral Amendment",       weight |-> 10, base_risk |-> 7],
       [key |-> "waiver_of_rights",     name |-> "Waiver of Rights",           weight |-> 8,  base_risk |-> 6] >>

\* The descriptions of self.red_flags, in declaration order.
red_flags ==
    << "Absolute discretion given to one party", "Action without cause or notice",
       "Irrevocable commitment", "Perpetual obligation", "Unconditional obligation",
       "Denial of rights", "Cost burden on one party", "Waiver of claims",
       "Binding without recourse", "No right of appeal" >>

\* A sentence that matches no pattern, keyword or red flag (108 characters).
Filler == "the parties will meet every quarter at the registered office to look at the progress of the work done so far"

\* The sentences texts are made of, in a fixed order.
Phrases ==
    << "penalty of rs. 50,000", "shall indemnify the company", "immediate termination",
       "exclusive jurisdiction", "lock-in period", "non-compete", "ownership of all work",
       "cap on liability", "confidential information", "unlimited liability",
       "reserves the right to amend", "waive any right", "irrevocable", "perpetual",
       "a fine is payable", "defend the claim", Filler >>

\* Sentences that match one red flag each; with "irrevocable" and "perpetual"
\* they match all ten.
FlagPhrases ==
    << "sole and absolute discretion", "without any reason", "unconditional",
       "will not be entitled", "at its own expense", "any claims shall be waived",
       "binding and conclusive", "no appeal" >>

\* What the regular expressions and keyword lists of the source find in each
\* sentence: the category it belongs to, the number of re.findall matches of
\* that category's patterns, the keywords of that category it contains, the red flag
\* it matches, and len(sentence).  No match spans two sentences.
phrase_table ==
    [ph \in {Phrases[i] : i \in DOMAIN Phrases} \cup {FlagPhrases[i] : i \in DOMAIN FlagPhrases} |->
      CASE ph = "penalty of rs. 50,000"       -> [category |-> "penalty_clause", patterns |-> 1, keywords |-> {"penalty"},                flag |-> "", len |-> 21]
        [] ph = "shall indemnify the company" -> [category |-> "indemnity_clause", patterns |-> 1, keywords |-> {"indemnify"},              flag |-> "", len |-> 27]
        [] ph = "immediate termination"       -> [category |-> "termination_clause", patterns |-> 1, keywords |-> {"termination"},            flag |-> "", len |-> 21]
        [] ph = "exclusive jurisdiction"      -> [category |-> "arbitration_clause", patterns |-> 1, keywords |-> {"jurisdiction"},           flag |-> "", len |-> 22]
        [] ph = "lock-in period"              -> [category |-> "auto_renewal", patterns |-> 1, keywords |-> {"lock-in"},                flag |-> "", len |-> 14]
        [] ph = "non-compete"                 -> [category |-> "non_compete", patterns |-> 1, keywords |-> {"non-compete", "compete"}, flag |-> "", len |-> 11]
        [] ph = "ownership of all work"       -> [category |-> "ip_transfer", patterns |-> 1, keywords |-> {"ownership"},              flag |-> "", len |-> 21]
        [] ph = "cap on liability"            -> [category |-> "liability_limitation", patterns |-> 1, keywords |-> {"cap on liability"},       flag |-> "", len |-> 16]
        [] ph = "confidential information"    -> [category |-> "confidentiality", patterns |-> 1, keywords |-> {"confidential"},           flag |-> "", len |-> 24]
        [] ph = "unlimited liability"         -> [category |-> "unlimited_liability", patterns |-> 1, keywords |-> {"unlimited liability"},    flag |-> "", len |-> 19]
        [] ph = "reserves the right to amend" -> [category |-> "unilateral_amendment", patterns |-> 1, keywords |-> {"amend"},                  flag |-> "", len |-> 27]
        [] ph = "waive any right"             -> [category |-> "waiver_of_rights", patterns |-> 1, keywords |-> {"waive"},                  flag |-> "", len |-> 15]
        [] ph = "a fine is payable"           -> [category |-> "penalty_clause", patterns |-> 0, keywords |-> {"fine"}, flag |-> "", len |-> 17]
        [] ph = "defend the claim"            -> [category |-> "indemnity_clause", patterns |-> 0, keywords |-> {"defend"}, flag |-> "", len |-> 16]
        [] ph = "irrevocable"                 -> [category |-> "", patterns |-> 0, keywords |-> {}, flag |-> "Irrevocable commitment", len |-> 11]
        [] ph = "perpetual"                   -> [category |-> "", patterns |-> 0, keywords |-> {}, flag |-> "Perpetual obligation",   len |-> 9]
        [] ph = "sole and absolute discretion" -> [category |-> "", patterns |-> 0, keywords |-> {}, flag |-> "Absolute discretion given to one party", len |-> 28]
        [] ph = "without any reason"          -> [category |-> "", patterns |-> 0, keywords |-> {}, flag |-> "Action without cause or notice", len |-> 18]
        [] ph = "unconditional"               -> [category |-> "", patterns |-> 0, keywords |-> {}, flag |-> "Unconditional obligation", len |-> 13]
        [] ph = "will not be entitled"        -> [category |-> "", patterns |-> 0, keywords |-> {}, flag |-> "Denial of rights", len |-> 20]
        [] ph = "at its own expense"          -> [category |-> "", patterns |-> 0, keywords |-> {}, flag |-> "Cost burden on one party", len |-> 18]
        [] ph = "any claims shall be waived"  -> [category |-> "waiver_of_rights", patterns |-> 0, keywords |-> {"waive"}, flag |-> "Waiver of claims", len |-> 26]
        [] ph = "binding and conclusive"      -> [category |-> "", patterns |-> 0, keywords |-> {}, flag |-> "Binding without recourse", len |-> 22]
        [] ph = "no appeal"                   -> [category |-> "", patterns |-> 0, keywords |-> {}, flag |-> "No right of appeal", len |-> 9]
        [] OTHER                              -> [category |-> "", patterns |-> 0, keywords |-> {}, flag |-> "", len |-> 108] ]

\* sum over config['patterns'] of len(re.findall(pattern, text_lower))
pattern_matches(text, category) ==
    SeqSum([i \in DOMAIN text |->
               IF phrase_table[text[i]].category = category THEN phrase_table[text[i]].patterns ELSE 0])

\* the number of config['keywords'] that occur in text_lower
keyword_hits(text, category) ==
    Cardinality(UNION {IF phrase_table[text[i]].category = category
                       THEN phrase_table[text[i]].keywords ELSE {} : i \in DOMAIN text})

\* category_score of one category after both inner loops, in 1/10
category_score(text, category) ==
    3 * pattern_matches(text, category) + 2 * keyword_hits(text, category)

\* The dict holding the first scored category only
category_scores_first_only(text) ==
    LET scored == {i \in DOMAIN risk_categories : category_score(text, risk_categories[i].key) > 0}
        first == {i \in scored : \A j \in scored : i <= j}
    IN  [i \in first |-> Min(category_score(text, risk_categories[i].key) + risk_categories[i].base_risk, 10)]

\* The category_scores dict: min(category_score + base_risk, 1.0) in 1/10,
\* held only for the categories with category_score > 0.
category_scores(text) ==
    LET scored == {i \in DOMAIN risk_categories : category_score(text, risk_categories[i].key) > 0}
    IN  [i \in scored |-> Min(category_score(text, risk_categories[i].key) + risk_categories[i].base_risk, 10)]

\* The red_flags list of a clause: the matching descriptions in table order.
found_red_flags(text) ==
    SelectSeq(red_flags, LAMBDA d : \E i \in DOMAIN text : phrase_table[text[i]].flag = d)

\* weighted_score * 0.4 + base_score * 0.6, or the flat 0.2
blended_score(text) ==
    LET cs == category_scores(text)
        weighted_score == SeqSum([i \in DOMAIN risk_categories |->
                              IF i \in DOMAIN cs THEN cs[i] * risk_categories[i].weight ELSE 0])
        base_score == SetMax({cs[i] : i \in DOMAIN cs})
    IN  IF DOMAIN cs # {} THEN 4 * weighted_score + 600 * base_score ELSE 2000

\* "if red_flags: risk_score = min(risk_score + len(red_flags) * 0.15, 1.0)"
adjust_for_red_flags(risk_score, n_flags) ==
    IF n_flags > 0 THEN Min(risk_score + n_flags * 1500, Scale) ELSE risk_score

\* The bands with a boundary score falling into the lower band
_score_to_level_exclusive(num, den) ==
    IF num > 8000 * den THEN "CRITICAL"
    ELSE IF num > 6000 * den THEN "HIGH"
    ELSE IF num > 3500 * den THEN "MEDIUM"
    ELSE "LOW"

\* _score_to_level of the score num / den (in units of 1/Scale)
_score_to_level(num, den) ==
    IF num >= 8000 * den THEN "CRITICAL"
    ELSE IF num >= 6000 * den THEN "HIGH"
    ELSE IF num >= 3500 * den THEN "MEDIUM"
    ELSE "LOW"

\* round(score, 2) of the score num / den (in units of 1/Scale)
round2(num, den) == RoundHalfEven(num, 100 * den) * 100

\* max(category_scores, key=category_scores.get): the first category, in
\* table order, with the greatest score; "general" when none scored.
primary_category(text) ==
    LET cs == category_scores(text)
    IN  IF DOMAIN cs = {} THEN "general"
        ELSE LET top == SetMax({cs[i] : i \in DOMAIN cs})
                 first == CHOOSE i \in DOMAIN cs : cs[i] = top /\ \A j \in DOMAIN cs : cs[j] = top => i <= j
             IN  risk_categories[first].key

\* _generate_mitigations.  The dict of suggestion lists is built anew by each
\* call, so the insert into the list taken from it reaches no later call.
_generate_mitigations(category, flags) ==
    LET suggestions ==
            CASE category = "penalty_clause" ->
                   << "Negotiate a cap on total penalties", "Request cure period before penalties apply",
                      "Add force majeure exceptions" >>
              [] category = "indemnity_clause" ->
                   << "Request mutual indemnification", "Add cap on indemnity obligations",
                      "Limit to direct damages only" >>
              [] category = "termination_clause" ->
                   << "Add termination for convenience for both parties", "Require reasonable notice period",
                      "Include cure period for breaches" >>
              [] category = "non_compete" ->
                   << "Limit geographic scope", "Reduce duration to reasonable period",
                      "Narrow scope of restricted activities" >>
              [] category = "ip_transfer" ->
                   << "Retain license to use created IP", "Limit transfer to project-specific IP",
                      "Add fair compensation for IP transfer" >>
              [] category = "unlimited_liability" ->
                   << "Add liability cap (e.g., contract value)", "Exclude consequential damages",
                      "Add insurance requirements" >>
              [] OTHER ->
                   << "Review clause with legal counsel", "Consider negotiating more balanced terms",
                      "Document any concerns before signing" >>
    IN  IF flags # <<>> THEN <<"Address red flags before proceeding">> \o suggestions ELSE suggestions

\* The second half of analyze_clause, from "Adjust for red flags" on: the
\* ClauseRisk made of the blended score, the red flags and the primary category
ClauseRisk(clause_id, score, flags, category) ==
    LET risk_score == adjust_for_red_flags(score, Len(flags))
    IN  [clause_id |-> clause_id,
         risk_level |-> _score_to_level(risk_score, 1),
         risk_score |-> round2(risk_score, 1),
         red_flags |-> flags,
         mitigation_suggestions |-> _generate_mitigations(category, flags),
         category |-> category]

\* analyze_clause: the ClauseRisk of a clause dict
analyze_clause(clause) ==
    ClauseRisk(clause.id, blended_score(clause.text), found_red_flags(clause.text),
               primary_category(clause.text))

RECURSIVE Flatten(_)
\* the sentences of all the paragraphs, in order
Flatten(paragraphs) ==
    IF paragraphs = <<>> THEN <<>> ELSE Head(paragraphs) \o Flatten(Tail(paragraphs))

\* len() of a paragraph: its sentences joined by ". "
paragraph_len(paragraph) ==
    SeqSum([i \in DOMAIN paragraph |-> phrase_table[paragraph[i]].len]) + 2 * (Len(paragraph) - 1)

\* _split_into_sections: the paragraphs longer than 100 characters; when there
\* is none, the whole text as one section (all its sentences).
_split_into_sections(text) ==
    LET sections == SelectSeq(text, LAMBDA s : paragraph_len(s) > 100)
    IN  IF sections # <<>> THEN sections ELSE << Flatten(text) >>

\* _calculate_overall_score: the score num / den (in units of 1/Scale), den > 0
_calculate_overall_score(clause_risks) ==
    IF clause_risks = <<>> THEN [num |-> 5000, den |-> 1]
    ELSE LET n == Len(clause_risks)
             total == SeqSum([i \in DOMAIN clause_risks |-> clause_risks[i].risk_score])
             max_score == SetMax({clause_risks[i].risk_score : i \in DOMAIN clause_risks})
             high_risk_count == Cardinality({i \in DOMAIN clause_risks :
                                    clause_risks[i].risk_level \in {"HIGH", "CRITICAL"}})
             high_risk_factor == Min(high_risk_count * 1000, 3000)
             \* 10 * n * (avg * 0.4 + max * 0.4 + high_risk_factor)
             overall == 4 * total + 4 * n * max_score + 10 * n * high_risk_factor
         IN  [num |-> Min(overall, 10 * n * Scale), den |-> 10 * n]

\* The list of the HIGH clauses alone
high_risk_high_only(clause_risks) ==
    SelectSeq(clause_risks, LAMBDA cr : cr.risk_level = "HIGH")

\* "high_risk = [cr for cr in clause_risks if cr.risk_level in [HIGH, CRITICAL]]"
high_risk(clause_risks) ==
    SelectSeq(clause_risks, LAMBDA cr : cr.risk_level \in {"HIGH", "CRITICAL"})

\* "if issue not in issues: issues.append(issue)" for each issue of a list:
\* an issue is appended unless issues holds it or it came earlier in the list
append_new(issues, more) ==
    LET new == SelectSeq([i \in DOMAIN more |-> i],
                         LAMBDA i : /\ \A k \in DOMAIN issues : issues[k] # more[i]
                                    /\ \A j \in 1..(i - 1) : more[j] # more[i])
    IN  issues \o [k \in DOMAIN new |-> more[new[k]]]

\* the red flags of all the clauses, clause after clause
all_red_flags(clause_risks) ==
    Flatten([i \in DOMAIN clause_risks |-> clause_risks[i].red_flags])

\* self.risk_categories.get(category, {}).get('name', category)
cat_name(category) ==
    IF \E i \in DOMAIN risk_categories : risk_categories[i].key = category
    THEN risk_categories[CHOOSE i \in DOMAIN risk_categories : risk_categories[i].key = category].name
    ELSE category

\* The whole list of issues, however long
_identify_priority_issues_untruncated(clause_risks) ==
    LET serious == SelectSeq(clause_risks, LAMBDA cr : cr.risk_level \in {"HIGH", "CRITICAL"})
    IN  append_new(append_new(<<>>, all_red_flags(clause_risks)),
                   [k \in DOMAIN serious |-> "High-risk " \o cat_name(serious[k].category) \o " detected"])

\* _identify_priority_issues: issues[:10]
_identify_priority_issues(clause_risks) ==
    LET serious == SelectSeq(clause_risks, LAMBDA cr : cr.risk_level \in {"HIGH", "CRITICAL"})
        issues == append_new(append_new(<<>>, all_red_flags(clause_risks)),
                             [k \in DOMAIN serious |-> "High-risk " \o cat_name(serious[k].category) \o " detected"])
    IN  Take(issues, 10)

\* The second half of analyze_contract, from "Calculate overall metrics" on:
\* the ContractRisk of a list of clause risks (category_scores and
\* recommendations left out)
ContractRisk(clause_risks) ==
    LET overall_score == _calculate_overall_score(clause_risks)
        count(level) == Cardinality({i \in DOMAIN clause_risks : clause_risks[i].risk_level = level})
    IN  [overall_score |-> round2(overall_score.num, overall_score.den),
         overall_level |-> _score_to_level(overall_score.num, overall_score.den),
         clause_risks |-> clause_risks,
         high_risk_clauses |-> high_risk(clause_risks),
         risk_distribution |-> [low |-> count("LOW"), medium |-> count("MEDIUM"),
                                high |-> count("HIGH"), critical |-> count("CRITICAL")],
         priority_issues |-> _identify_priority_issues(clause_risks)]

\* analyze_contract: the clauses handed in, or else the sections of the text,
\* each analysed on its own
analyze_contract(text, clauses) ==
    ContractRisk(IF clauses # <<>>
                 THEN [i \in DOMAIN clauses |-> analyze_clause(clauses[i])]
                 ELSE LET sections == _split_into_sections(text)
                      IN  [i \in DOMAIN sections |-> analyze_clause([id |-> i - 1, text |-> sections[i]])])

\* the sentences of the set S as one clause text, in catalogue order
TextOf(S) == SelectSeq(Phrases, LAMBDA ph : ph \in S)

\* The clause texts of the clause lists handed to analyze_contract.
ClauseTexts ==
    { <<>>,
      <<"confidential information">>,
      <<"immediate termination", "irrevocable">>,
      <<"penalty of rs. 50,000", "shall indemnify the company">>,
      <<"unlimited liability", "perpetual">>,
      <<"irrevocable", "perpetual">> \o FlagPhrases }

\* The paragraphs of the texts handed to analyze_contract: one shorter than
\* the 100 characters a section needs, two longer.
Paragraphs ==
    { <<"confidential information">>,
      <<Filler>>,
      <<"immediate termination", "irrevocable", Filler>> }

InitRisk ==
    /\ phase = "ready"
    /\ Idle

\* One call of RiskAnalyzer.analyze_clause, with any subset of the sentences.
AnalyzeClause ==
    /\ phase = "ready"
    /\ \E S \in SUBSET {Phrases[i] : i \in DOMAIN Phrases} :
        LET clause == [id |-> 1, text |-> TextOf(S)]
        IN  /\ ra_clauses' = <<clause>>
            /\ ra_result' = analyze_clause(clause)
    /\ ra_op' = "analyze_clause"
    /\ ra_text' = <<>>
    /\ phase' = "returned"
    /\ UNCHANGED besidesRisk

\* One call of RiskAnalyzer.analyze_contract; an absent clause list is the empty one.
\* A clause list comes with a text of at most one paragraph: the text is
\* not looked at then.
AnalyzeContract ==
    /\ phase = "ready"
    /\ \E text \in SeqsUpTo(Paragraphs, MaxParagraphs),
          texts \in SeqsUpTo(ClauseTexts, MaxClauses) :
        LET clauses == [i \in DOMAIN texts |-> [id |-> i, text |-> texts[i]]]
        IN  /\ texts = <<>> \/ Len(text) <= 1
            /\ ra_text' = text
            /\ ra_clauses' = clauses
            /\ ra_result' = analyze_contract(text, clauses)
    /\ ra_op' = "analyze_contract"
    /\ phase' = "returned"
    /\ UNCHANGED besidesRisk

\* The scores handed to _score_to_level on its own: every 1/10000 from below
\* 0.0 to above 1.0
ScoreInputs == (0 - Scale \div 10) .. (Scale + Scale \div 10)

\* One call of RiskAnalyzer._score_to_level
ScoreToLevel ==
    /\ phase = "ready"
    /\ \E score \in ScoreInputs :
        ra_result' = [score |-> score, risk_level |-> _score_to_level(score, 1)]
    /\ ra_op' = "_score_to_level"
    /\ ra_text' = <<>>
    /\ ra_clauses' = <<>>
    /\ phase' = "returned"
    /\ UNCHANGED besidesRisk

\* The caller is done with the result; the analyzer keeps nothing of it.
ReleaseRisk ==
    /\ phase = "returned"
    /\ phase' = "ready"
    /\ ra_op' = "none"
    /\ ra_text' = <<>>
    /\ ra_clauses' = <<>>
    /\ ra_result' = <<>>
    /\ UNCHANGED besidesRisk

NextRisk == AnalyzeClause \/ AnalyzeContract \/ ScoreToLevel \/ ReleaseRisk

SpecRisk == InitRisk /\ [][NextRisk]_vars

(***************************************************************************)
(* Claims about RiskAnalyzer                                               *)
(***************************************************************************)

\* helpers.format_risk_score: the band of the fixed threshold table for a
\* returned (rounded) score
format_risk_score(score) ==
    IF score >= 8000 THEN "CRITICAL"
    ELSE IF score >= 6000 THEN "HIGH"
    ELSE IF score >= 3500 THEN "MEDIUM"
    ELSE "LOW"

\* RiskLevel bands in ascending order of severity
LevelRank(level) ==
    CASE level = "LOW" -> 1 [] level = "MEDIUM" -> 2 [] level = "HIGH" -> 3 [] level = "CRITICAL" -> 4

\* C2: every returned verdict is self-consistent: the risk_level of a
\* ClauseRisk is the band the threshold table assigns to its returned
\* risk_score, and the overall_level of a ContractRisk is the band of its
\* returned overall_score.
C2_LevelMatchesReturnedScore ==
    /\ ra_op = "analyze_clause" =>
           ra_result.risk_level = format_risk_score(ra_result.risk_score)
    /\ ra_op = "analyze_contract" =>
           /\ ra_result.overall_level = format_risk_score(ra_result.overall_score)
           /\ \A i \in DOMAIN ra_result.clause_risks :
                  ra_result.clause_risks[i].risk_level
                      = format_risk_score(ra_result.clause_risks[i].risk_score)

\* The sentences that match a red flag and nothing else.
RedFlagPhrases ==
    {Phrases[i] : i \in DOMAIN Phrases} \cap
        {ph \in DOMAIN phrase_table : phrase_table[ph].flag # "" /\ phrase_table[ph].category = ""}

\* C3: adding one more red-flag match to the analysed clause, everything
\* else unchanged, never decreases the returned risk_score and never moves
\* risk_level to a lower band.
C3_RedFlagMonotone ==
    ra_op = "analyze_clause" =>
        \A ph \in RedFlagPhrases :
            LET text == ra_clauses[1].text
                more == analyze_clause([id |-> 1, text |-> Append(text, ph)])
            IN  (\A i \in DOMAIN text : text[i] # ph) =>
                    /\ more.risk_score >= ra_result.risk_score
                    /\ LevelRank(more.risk_level) >= LevelRank(ra_result.risk_level)

\* C4: the risk_score returned by analyze_clause lies in 0.0 .. 1.0.
C4_ClauseScoreInUnitRange ==
    ra_op = "analyze_clause" =>
        ra_result.risk_score >= 0 /\ ra_result.risk_score <= Scale

\* C5: analyze_contract of the empty text with an empty or absent clause
\* list returns overall_score 0.5 and overall_level MEDIUM.
C5_EmptyContractIsNeutral ==
    (ra_op = "analyze_contract" /\ ra_text = <<>> /\ ra_clauses = <<>>) =>
        ra_result.overall_score = 5000 /\ ra_result.overall_level = "MEDIUM"

\* C11: _score_to_level is a total function of the score with the fixed
\* boundaries 0.8 / 0.6 / 0.35, a boundary value falling into the higher
\* band: s >= 0.8 is CRITICAL, 0.6 <= s < 0.8 is HIGH, 0.35 <= s < 0.6 is
\* MEDIUM and s < 0.35 is LOW.
C11_ScoreToLevelBands ==
    ra_op = "_score_to_level" =>
        LET s == ra_result.score
            level == ra_result.risk_level
        IN  /\ level \in {"LOW", "MEDIUM", "HIGH", "CRITICAL"}
            /\ level = "CRITICAL" <=> s >= 8000
            /\ level = "HIGH" <=> (6000 <= s /\ s < 8000)
            /\ level = "MEDIUM" <=> (3500 <= s /\ s < 6000)
            /\ level = "LOW" <=> s < 3500

\* _score_to_level(0.6) has returned HIGH
C11_Witness ==
    /\ ra_op = "_score_to_level"
    /\ ra_result.score = 6000
    /\ ra_result.risk_level = "HIGH"

\* C13: whenever the penalty_clause and the indemnity_clause categories both
\* have a pattern or keyword hit in the analysed clause, both have a nonzero
\* per-category score and the returned risk_level is MEDIUM or higher,
\* whatever else matches.
C13_PenaltyAndIndemnityFlagged ==
    ra_op = "analyze_clause" =>
        LET text == ra_clauses[1].text
            hit(category) == \E i \in DOMAIN text : phrase_table[text[i]].category = category
            cs == category_scores(text)
        IN  (hit("penalty_clause") /\ hit("indemnity_clause")) =>
                /\ \A i \in DOMAIN risk_categories :
                       risk_categories[i].key \in {"penalty_clause", "indemnity_clause"} =>
                           i \in DOMAIN cs /\ cs[i] > 0
                /\ LevelRank(ra_result.risk_level) >= LevelRank("MEDIUM")

\* The two categories hit by keywords only, nothing else matching: the level
\* is exactly MEDIUM
C13_Witness ==
    /\ ra_op = "analyze_clause"
    /\ ra_clauses[1].text = <<"a fine is payable", "defend the claim">>
    /\ ra_result.risk_level = "MEDIUM"

\* C18: in every ContractRisk the four counts of risk_distribution sum to the
\* number of clause_risks, and the high and critical counts together equal
\* the length of high_risk_clauses.
C18_DistributionCountsClauses ==
    ra_op = "analyze_contract" =>
        LET d == ra_result.risk_distribution
        IN  /\ d.low + d.medium + d.high + d.critical = Len(ra_result.clause_risks)
            /\ d.high + d.critical = Len(ra_result.high_risk_clauses)

\* A three-clause contract with a LOW, a HIGH and a CRITICAL clause
C18_Witness ==
    /\ ra_op = "analyze_contract"
    /\ Len(ra_result.clause_risks) = 3
    /\ ra_result.risk_distribution = [low |-> 1, medium |-> 0, high |-> 1, critical |-> 1]
    /\ Len(ra_result.high_risk_clauses) = 2

\* C19: priority_issues has no duplicate, has at most 10 entries, and is the
\* first 10 entries of: the distinct red-flag descriptions in clause order,
\* followed by one "High-risk <category name> detected" string per distinct
\* category of a HIGH or CRITICAL clause.
C19_PriorityIssues ==
    ra_op = "analyze_contract" =>
        LET Distinct(s) ==
                LET kept == SelectSeq([i \in DOMAIN s |-> i], LAMBDA i : \A j \in 1..(i - 1) : s[j] # s[i])
                IN  [k \in DOMAIN kept |-> s[kept[k]]]
            risks == ra_result.clause_risks
            flags == Distinct(all_red_flags(risks))
            serious == SelectSeq(risks, LAMBDA cr : cr.risk_level \in {"HIGH", "CRITICAL"})
            categories == Distinct([k \in DOMAIN serious |-> serious[k].category])
            detected == [k \in DOMAIN categories |-> "High-risk " \o cat_name(categories[k]) \o " detected"]
            issues == ra_result.priority_issues
        IN  /\ \A i, j \in DOMAIN issues : issues[i] = issues[j] => i = j
            /\ Len(issues) <= 10
            /\ issues = SubSeq(flags \o detected, 1, Min(10, Len(flags) + Len(detected)))

\* Two clauses share a red flag, and the ten red flags leave no room for the
\* strings of the two serious categories
C19_Witness ==
    /\ ra_op = "analyze_contract"
    /\ Len(ra_result.priority_issues) = 10
    /\ Len(all_red_flags(ra_result.clause_risks)) > 10
    /\ \E i, j \in DOMAIN ra_result.clause_risks :
          /\ ra_result.clause_risks[i].risk_level = "CRITICAL"
          /\ ra_result.clause_risks[j].risk_level = "CRITICAL"
          /\ ra_result.clause_risks[i].category # ra_result.clause_risks[j].category
    /\ \A k \in DOMAIN ra_result.priority_issues :
          \E f \in DOMAIN red_flags : ra_result.priority_issues[k] = red_flags[f]

\* C20: one egregious clause is not diluted by benign ones: for a clause
\* list with at least one CRITICAL clause and otherwise LOW clauses only,
\* however many, overall_level is HIGH or CRITICAL, where overall_score is
\* min(0.4 * mean(clause scores) + 0.4 * max(clause score)
\*     + min(0.1 * count of HIGH-or-CRITICAL clauses, 0.3), 1.0).
C20_CriticalClauseNotDiluted ==
    ra_op = "analyze_contract" =>
        LET risks == ra_result.clause_risks
            n == Len(risks)
            serious == Cardinality({i \in DOMAIN risks : risks[i].risk_level \in {"HIGH", "CRITICAL"}})
            \* 10 * n * (0.4 * mean + 0.4 * max + min(0.1 * serious, 0.3))
            sum == 4 * SeqSum([i \in DOMAIN risks |-> risks[i].risk_score])
                   + 4 * n * SetMax({risks[i].risk_score : i \in DOMAIN risks})
                   + 10 * n * Min(1000 * serious, 3000)
        IN  /\ n > 0 => ra_result.overall_score = round2(Min(sum, 10 * n * Scale), 10 * n)
            /\ ( /\ \E i \in DOMAIN risks : risks[i].risk_level = "CRITICAL"
                 /\ \A i \in DOMAIN risks : risks[i].risk_level \in {"CRITICAL", "LOW"} )
               => ra_result.overall_level \in {"HIGH", "CRITICAL"}

-----------------------------------------------------------------------------
(***************************************************************************)
(* ComplianceChecker  (src/src/analysis/compliance_checker.py)             *)
(*                                                                         *)
(* check_compliance only asks whether a pattern occurs in the lower-cased  *)
(* text, so a text is the set of catalogue sentences it contains.  Of a    *)
(* ComplianceIssue the model keeps issue_id, law_reference and severity;   *)
(* the free-text fields are built from them and decide nothing.            *)
(***************************************************************************)

\* Most sentences in a text handed to check_compliance.
MaxSentences == 4

\* One entry of a law's "checks" list; its patterns are in sentence_table.
Check(id, name, check_type, severity) ==
    [id |-> id, name |-> name, check_type |-> check_type, severity |-> severity]

\* self.compliance_rules in declaration order
compliance_rules ==
    << [key |-> "indian_contract_act", name |-> "Indian Contract Act, 1872",
        checks |-> << Check("ica_001", "Free Consent", "absence", "High"),
                      Check("ica_002", "Lawful Object", "absence", "Critical"),
                      Check("ica_003", "Consideration", "presence", "High"),
                      Check("ica_004", "Competent Parties", "absence", "Critical") >>],
       [key |-> "arbitration_act", name |-> "Arbitration and Conciliation Act, 1996",
        checks |-> << Check("arb_001", "Written Arbitration Agreement", "info", "Medium"),
                      Check("arb_002", "Seat of Arbitration", "conditional", "Medium"),
                      Check("arb_003", "Number of Arbitrators", "conditional", "Low") >>],
       [key |-> "it_act", name |-> "Information Technology Act, 2000",
        checks |-> << Check("it_001", "Electronic Signatures", "info", "Low"),
                      Check("it_002", "Data Protection", "info", "Medium") >>],
       [key |-> "stamp_act", name |-> "Indian Stamp Act, 1899",
        checks |-> << Check("stamp_001", "Stamp Duty Mention", "recommended", "Medium") >>],
       [key |-> "competition_act", name |-> "Competition Act, 2002",
        checks |-> << Check("comp_001", "Anti-Competitive Clauses", "warning", "High"),
                      Check("comp_002", "Unreasonable Restrictions", "absence", "High") >>],
       [key |-> "consumer_protection", name |-> "Consumer Protection Act, 2019",
        checks |-> << Check("cp_001", "Unfair Contract Terms", "warning", "Medium") >>],
       [key |-> "labour_laws", name |-> "Labour Laws (Employment Contracts)",
        checks |-> << Check("lab_001", "Minimum Wage Compliance", "info", "High"),
                      Check("lab_002", "Working Hours", "info", "Medium"),
                      Check("lab_003", "Leave Provisions", "recommended", "Medium"),
                      Check("lab_004", "Termination Notice", "recommended", "Medium") >>] >>

\* self.type_requirements: the law keys checked for each known contract type
type_requirements ==
    [t \in {"Employment Agreement", "Vendor Contract", "Lease Agreement",
            "Service Contract", "Non-Disclosure Agreement", "Partnership Deed"} |->
      CASE t = "Employment Agreement" -> <<"labour_laws", "indian_contract_act">>
        [] t \in {"Vendor Contract", "Lease Agreement", "Partnership Deed"} ->
               <<"indian_contract_act", "stamp_act">>
        [] OTHER -> <<"indian_contract_act", "it_act">> ]

\* The sentences the texts handed to check_compliance are made of.
Sentences ==
    { "obtained by fraud", "for an unlawful purpose", "in consideration of the fee",
      "the employee is a minor", "disputes are settled by arbitration",
      "the seat of arbitration is mumbai", "before a sole arbitrator",
      "a non-compete applies", "a perpetual restriction applies",
      "all fees are non-refundable", "stamp duty is borne by the tenant",
      "annual leave of twenty days", "the parties meet every quarter",
      "the fee covers consideration, stamp duty, leave and the notice period" }

\* What the regular expressions of compliance_rules find in each sentence:
\* the checks one of whose "patterns" matches it, and the conditional checks
\* whose "condition" matches it.  No match spans two sentences.
sentence_table ==
    [st \in Sentences |->
      CASE st = "obtained by fraud"                   -> [matches |-> {"ica_001"}, condition |-> {}]
        [] st = "for an unlawful purpose"             -> [matches |-> {"ica_002"}, condition |-> {}]
        [] st = "in consideration of the fee"         -> [matches |-> {"ica_003"}, condition |-> {}]
        [] st = "the employee is a minor"             -> [matches |-> {"ica_004"}, condition |-> {}]
        [] st = "disputes are settled by arbitration" -> [matches |-> {"arb_001"}, condition |-> {"arb_002", "arb_003"}]
        [] st = "the seat of arbitration is mumbai"   -> [matches |-> {"arb_001", "arb_002"}, condition |-> {"arb_002", "arb_003"}]
        [] st = "before a sole arbitrator"            -> [matches |-> {"arb_001", "arb_003"}, condition |-> {}]
        [] st = "a non-compete applies"               -> [matches |-> {"comp_001"}, condition |-> {}]
        [] st = "a perpetual restriction applies"     -> [matches |-> {"comp_002"}, condition |-> {}]
        [] st = "all fees are non-refundable"         -> [matches |-> {"cp_001"}, condition |-> {}]
        [] st = "stamp duty is borne by the tenant"   -> [matches |-> {"stamp_001"}, condition |-> {}]
        [] st = "annual leave of twenty days"         -> [matches |-> {"lab_003"}, condition |-> {}]
        [] st = "the fee covers consideration, stamp duty, leave and the notice period"
                                                      -> [matches |-> {"ica_003", "stamp_001", "lab_003", "lab_004"}, condition |-> {}]
        [] OTHER                                      -> [matches |-> {}, condition |-> {}] ]

\* has_matches: some pattern of the check is found in the text
has_matches(text, check) == \E st \in text : check.id \in sentence_table[st].matches

\* "condition and re.search(condition, text)"
condition_met(text, check) == \E st \in text : check.id \in sentence_table[st].condition

\* _perform_check with the condition of a conditional check left out
_perform_check_unconditional(text, check) ==
    CASE check.check_type = "absence" -> IF has_matches(text, check) THEN "issue" ELSE "compliant"
      [] check.check_type = "presence" -> IF has_matches(text, check) THEN "compliant" ELSE "missing"
      [] check.check_type = "conditional" -> IF ~has_matches(text, check) THEN "issue" ELSE "compliant"
      [] check.check_type = "warning" -> IF has_matches(text, check) THEN "issue" ELSE "compliant"
      [] check.check_type = "recommended" -> IF has_matches(text, check) THEN "compliant" ELSE "missing"
      [] OTHER -> "compliant"

\* _perform_check with a required element that is absent reported as an issue
_perform_check_absent_is_issue(text, check) ==
    CASE check.check_type = "absence" -> IF has_matches(text, check) THEN "issue" ELSE "compliant"
      [] check.check_type = "presence" -> IF has_matches(text, check) THEN "compliant" ELSE "issue"
      [] check.check_type = "conditional" ->
             IF condition_met(text, check) /\ ~has_matches(text, check) THEN "issue" ELSE "compliant"
      [] check.check_type = "warning" -> IF has_matches(text, check) THEN "issue" ELSE "compliant"
      [] check.check_type = "recommended" -> IF has_matches(text, check) THEN "compliant" ELSE "missing"
      [] OTHER -> "compliant"

\* _perform_check: the "status" of the result dict
_perform_check(text, check) ==
    CASE check.check_type = "absence" -> IF has_matches(text, check) THEN "issue" ELSE "compliant"
      [] check.check_type = "presence" -> IF has_matches(text, check) THEN "compliant" ELSE "missing"
      [] check.check_type = "conditional" ->
             IF condition_met(text, check) /\ ~has_matches(text, check) THEN "issue" ELSE "compliant"
      [] check.check_type = "warning" -> IF has_matches(text, check) THEN "issue" ELSE "compliant"
      [] check.check_type = "recommended" -> IF has_matches(text, check) THEN "compliant" ELSE "missing"
      [] OTHER -> "compliant"

\* The law with the given key
LawOf(law_key) == CHOOSE law \in {compliance_rules[i] : i \in DOMAIN compliance_rules} : law.key = law_key

\* laws_to_check without the selection by type: always every law
laws_to_check_every_law(contract_type) ==
    [i \in DOMAIN compliance_rules |-> compliance_rules[i].key]

\* laws_to_check: the type's list when the type is given and known, else every law
laws_to_check(contract_type) ==
    IF contract_type # "" /\ contract_type \in DOMAIN type_requirements
    THEN type_requirements[contract_type]
    ELSE [i \in DOMAIN compliance_rules |-> compliance_rules[i].key]

RECURSIVE checks_run(_)
\* The (law, check) pairs in the order the two nested loops visit them
checks_run(law_keys) ==
    IF law_keys = <<>> THEN <<>>
    ELSE LET law == LawOf(Head(law_keys))
         IN  [i \in DOMAIN law.checks |-> [law |-> law.name, check |-> law.checks[i]]]
                 \o checks_run(Tail(law_keys))

\* The status ladder with the High step taken before the Critical one
overall_status_high_first(issues) ==
    IF \E i \in DOMAIN issues : issues[i].severity = "High" THEN "PARTIALLY_COMPLIANT"
    ELSE IF \E i \in DOMAIN issues : issues[i].severity = "Critical" THEN "NON_COMPLIANT"
    ELSE IF issues # <<>> THEN "NEEDS_REVIEW"
    ELSE "COMPLIANT"

\* "Determine overall status"
overall_status(issues) ==
    IF \E i \in DOMAIN issues : issues[i].severity = "Critical" THEN "NON_COMPLIANT"
    ELSE IF \E i \in DOMAIN issues : issues[i].severity = "High" THEN "PARTIALLY_COMPLIANT"
    ELSE IF issues # <<>> THEN "NEEDS_REVIEW"
    ELSE "COMPLIANT"


\* _generate_recommendations: a heading per group, then the group's first entries
_generate_recommendations(issues, missing) ==
    LET critical == SelectSeq(issues, LAMBDA i : i.severity = "Critical")
        high == SelectSeq(issues, LAMBDA i : i.severity = "High")
        entries(heading, list) ==
            IF list = <<>> THEN <<>>
            ELSE <<[heading |-> heading, about |-> ""]>>
                     \o [k \in DOMAIN list |-> [heading |-> "", about |-> list[k]]]
    IN  entries("CRITICAL", [k \in DOMAIN Take(critical, 3) |-> critical[k].issue_id])
        \o entries("HIGH PRIORITY", [k \in DOMAIN Take(high, 3) |-> high[k].issue_id])
        \o entries("MISSING", [k \in DOMAIN Take(missing, 5) |-> missing[k].check])
        \o (IF issues = <<>> /\ missing = <<>>
            THEN <<[heading |-> "appears compliant", about |-> ""],
                   [heading |-> "consider legal review", about |-> ""]>>
            ELSE <<>>)

\* check_compliance: the ComplianceReport
check_compliance(text, contract_type) ==
    LET law_keys == laws_to_check(contract_type)
        run == checks_run(law_keys)
        with(status) == SelectSeq(run, LAMBDA r : _perform_check(text, r.check) = status)
        found == with("issue")
        issues == [k \in DOMAIN found |->
                      [issue_id |-> found[k].check.id, law_reference |-> found[k].law,
                       severity |-> found[k].check.severity]]
        compliant == with("compliant")
        absent == with("missing")
        missing_requirements == [k \in DOMAIN absent |-> [check |-> absent[k].check.name, law |-> absent[k].law]]
    IN  [overall_status |-> overall_status(issues),
         issues |-> issues,
         compliant_areas |-> [k \in DOMAIN compliant |-> [law |-> compliant[k].law, check |-> compliant[k].check.name]],
         missing_requirements |-> missing_requirements,
         recommendations |-> _generate_recommendations(issues, missing_requirements),
         laws_checked |-> [k \in DOMAIN law_keys |-> LawOf(law_keys[k]).name]]

\* The contract_type arguments: the known types, none, and a type with no entry.
ContractTypes == DOMAIN type_requirements \cup {"", "Franchise Agreement"}

InitCompliance ==
    /\ phase = "ready"
    /\ Idle

\* One call of ComplianceChecker.check_compliance
CheckCompliance ==
    /\ phase = "ready"
    /\ \E text \in {t \in SUBSET Sentences : Cardinality(t) <= MaxSentences},
          contract_type \in ContractTypes :
        /\ cc_text' = text
        /\ cc_type' = contract_type
        /\ cc_report' = check_compliance(text, contract_type)
    /\ phase' = "returned"
    /\ UNCHANGED besidesCompliance

\* The caller is done with the report; the checker keeps nothing of it.
ReleaseCompliance ==
    /\ phase = "returned"
    /\ phase' = "ready"
    /\ cc_text' = {}
    /\ cc_type' = ""
    /\ cc_report' = NoReport
    /\ UNCHANGED besidesCompliance

NextCompliance == CheckCompliance \/ ReleaseCompliance

SpecCompliance == InitCompliance /\ [][NextCompliance]_vars

(***************************************************************************)
(* Claims about ComplianceChecker                                          *)
(***************************************************************************)

\* the severities of the issues of the report
Severities == {cc_report.issues[i].severity : i \in DOMAIN cc_report.issues}

\* C6: the status of every report follows the ladder over its issue list
\* alone: NON_COMPLIANT with a Critical issue, else PARTIALLY_COMPLIANT with
\* a High issue, else NEEDS_REVIEW with any issue, else COMPLIANT.
C6_StatusLadder ==
    cc_report.overall_status # "none" =>
        /\ "Critical" \in Severities => cc_report.overall_status = "NON_COMPLIANT"
        /\ ("Critical" \notin Severities /\ "High" \in Severities)
               => cc_report.overall_status = "PARTIALLY_COMPLIANT"
        /\ (Severities \cap {"Critical", "High"} = {} /\ cc_report.issues # <<>>)
               => cc_report.overall_status = "NEEDS_REVIEW"
        /\ cc_report.issues = <<>> => cc_report.overall_status = "COMPLIANT"

\* a report with a Critical and a High issue beside missing requirements and
\* compliant areas
C6_Witness ==
    /\ cc_report.overall_status = "NON_COMPLIANT"
    /\ {"Critical", "High", "Medium"} \subseteq Severities
    /\ cc_report.missing_requirements # <<>>
    /\ cc_report.compliant_areas # <<>>

\* the conditional checks of the laws the report covers
ConditionalChecksRun ==
    {r.check : r \in {checks_run(laws_to_check(cc_type))[k] : k \in DOMAIN checks_run(laws_to_check(cc_type))}}
        \cap {c \in UNION {{law.checks[i] : i \in DOMAIN law.checks} :
                               law \in {compliance_rules[j] : j \in DOMAIN compliance_rules}} :
                  c.check_type = "conditional"}

\* the issues of the report raised by the check
IssuesOf(check) == {i \in DOMAIN cc_report.issues : cc_report.issues[i].issue_id = check.id}

\* C10: a conditional check that was run yields exactly one issue, of the
\* check's configured severity, when its condition matches the text and
\* none of its patterns does; otherwise it yields no issue and is recorded
\* in compliant_areas.
C10_ConditionalCheck ==
    cc_report.overall_status # "none" =>
        \A check \in ConditionalChecksRun :
            LET condition == \E st \in cc_text : check.id \in sentence_table[st].condition
                pattern == \E st \in cc_text : check.id \in sentence_table[st].matches
                recorded == \E k \in DOMAIN cc_report.compliant_areas :
                                cc_report.compliant_areas[k].check = check.name
            IN  IF condition /\ ~pattern
                THEN /\ Cardinality(IssuesOf(check)) = 1
                     /\ \A i \in IssuesOf(check) : cc_report.issues[i].severity = check.severity
                     /\ ~recorded
                ELSE IssuesOf(check) = {} /\ recorded

\* arb_002 raises its Medium issue while arb_003, whose pattern matches, raises none
C10_Witness ==
    /\ \E i \in DOMAIN cc_report.issues :
           cc_report.issues[i].issue_id = "arb_002" /\ cc_report.issues[i].severity = "Medium"
    /\ \A i \in DOMAIN cc_report.issues : cc_report.issues[i].issue_id # "arb_003"
    /\ "before a sole arbitrator" \in cc_text


\* C15: check_compliance runs exactly the checks of the statutes declared for
\* the contract type when type_requirements declares a list for it, and the
\* checks of every statute of the rule table otherwise (no type, or a type
\* without a list); each check run leaves one record (an issue, a compliant
\* area or a missing requirement); laws_checked names the statutes run, in
\* order; and a report is returned for every contract type.
C15_StatuteSelection ==
    phase = "returned" /\ cc_report # NoReport =>
        LET declared == cc_type \in {"Employment Agreement", "Vendor Contract", "Lease Agreement",
                                     "Service Contract", "Non-Disclosure Agreement", "Partnership Deed"}
            statutes == IF declared THEN type_requirements[cc_type]
                        ELSE [i \in DOMAIN compliance_rules |-> compliance_rules[i].key]
            law(k) == CHOOSE l \in {compliance_rules[i] : i \in DOMAIN compliance_rules} : l.key = statutes[k]
            expected == UNION {{<<law(k).name, law(k).checks[i]>> : i \in DOMAIN law(k).checks} : k \in DOMAIN statutes}
            recorded(e) ==
                Cardinality({i \in DOMAIN cc_report.issues :
                                cc_report.issues[i].issue_id = e[2].id /\ cc_report.issues[i].law_reference = e[1]})
                + Cardinality({i \in DOMAIN cc_report.compliant_areas :
                                cc_report.compliant_areas[i] = [law |-> e[1], check |-> e[2].name]})
                + Cardinality({i \in DOMAIN cc_report.missing_requirements :
                                cc_report.missing_requirements[i] = [check |-> e[2].name, law |-> e[1]]})
        IN  /\ cc_report.overall_status \in {"COMPLIANT", "NEEDS_REVIEW", "PARTIALLY_COMPLIANT", "NON_COMPLIANT"}
            /\ cc_report.laws_checked = [k \in DOMAIN statutes |-> law(k).name]
            /\ \A e \in expected : recorded(e) = 1
            /\ Len(cc_report.issues) + Len(cc_report.compliant_areas)
                   + Len(cc_report.missing_requirements) = Cardinality(expected)

\* An employment agreement checked against its two statutes only, with an
\* issue found
C15_Witness ==
    /\ phase = "returned"
    /\ cc_type = "Employment Agreement"
    /\ cc_report.laws_checked = <<"Labour Laws (Employment Contracts)", "Indian Contract Act, 1872">>
    /\ cc_report.issues # <<>>

\* C16: check_compliance of the empty string, for any contract type, returns
\* a report with an empty issue list and overall_status COMPLIANT.
C16_EmptyTextCompliant ==
    (phase = "returned" /\ cc_report # NoReport /\ cc_text = {}) =>
        cc_report.issues = <<>> /\ cc_report.overall_status = "COMPLIANT"

\* The empty text checked against every statute: requirements are missing,
\* yet the report is COMPLIANT
C16_Witness ==
    /\ phase = "returned"
    /\ cc_text = {}
    /\ cc_type = ""
    /\ cc_report.overall_status = "COMPLIANT"
    /\ cc_report.missing_requirements # <<>>
    /\ Len(cc_report.laws_checked) = Len(compliance_rules)

\* the entries of a recommendation list under one heading: the heading's own
\* position, and the positions of the entries that follow it up to the next heading
HeadingAt(recommendations, heading) ==
    {k \in DOMAIN recommendations : recommendations[k].heading = heading}

\* C25: the recommendations of a report list the Critical issues first (at
\* most three), then the High issues (at most three), then the missing
\* requirements (at most five), each group under its heading; when none of
\* the three groups applies the list is the generic "appears compliant"
\* note, so the list is never empty.
C25_RecommendationsNeverEmpty ==
    (phase = "returned" /\ cc_report # NoReport) =>
        LET recs == cc_report.recommendations
            critical == SelectSeq(cc_report.issues, LAMBDA i : i.severity = "Critical")
            high == SelectSeq(cc_report.issues, LAMBDA i : i.severity = "High")
            missing == cc_report.missing_requirements
            group(heading, abouts) ==
                IF abouts = <<>> THEN <<>>
                ELSE <<[heading |-> heading, about |-> ""]>>
                         \o [k \in DOMAIN abouts |-> [heading |-> "", about |-> abouts[k]]]
            groups == group("CRITICAL", [k \in 1..Min(3, Len(critical)) |-> critical[k].issue_id])
                      \o group("HIGH PRIORITY", [k \in 1..Min(3, Len(high)) |-> high[k].issue_id])
                      \o group("MISSING", [k \in 1..Min(5, Len(missing)) |-> missing[k].check])
        IN  /\ recs # <<>>
            /\ groups # <<>> => recs = groups
            /\ groups = <<>> => HeadingAt(recs, "appears compliant") # {}

-----------------------------------------------------------------------------
(***************************************************************************)
(* LegalEntityExtractor  (src/src/nlp/entity_extractor.py)                 *)
(*                                                                         *)
(* A text is a sequence of catalogue sentences joined by "; ".  What each  *)
(* regular expression family finds in a sentence is tabulated with the     *)
(* number of the pattern that finds it (its pass), because every extractor *)
(* loops over its patterns first and over the text second.  Of a           *)
(* LegalEntity the model keeps entity_type, value and normalized_value.    *)
(***************************************************************************)

\* Most sentences in a text handed to extract_all_entities.
MaxFragments == 3

\* The sentences the texts handed to extract_all_entities are made of.
Fragments ==
    { "This agreement is made between Acme Traders Private Limited, a firm of traders",
      "this deed is effective once signed by both sides on 15 January 2026",
      "a penalty of Rs. 500 applies",
      "a penalty of 5 lakhs applies",
      "a penalty of 2 crores applies",
      "by giving prior written notice of 30 days",
      "the courts at Mumbai shall have exclusive jurisdiction",
      "subject to MUMBAI courts, and no other",
      "the Supplier shall deliver the machinery within 30 days",
      "the Buyer may not assign this contract" }

\* str.lower() over the values the catalogue produces
lower(value) ==
    CASE value = "Acme Traders Private Limited" -> "acme traders private limited"
      [] value = "Acme Traders" -> "acme traders"
      [] value = "This agreement is made between Acme Traders Private Limited"
             -> "this agreement is made between acme traders private limited"
      [] value = "15 January 2026" -> "15 january 2026"
      [] value = "Rs. 500" -> "rs. 500"
      [] value \in {"Mumbai", "MUMBAI"} -> "mumbai"
      [] value = "MUMBAI courts" -> "mumbai courts"
      [] value = "subject to MUMBAI co" -> "subject to mumbai co"
      [] value = "the Buyer may not assign this co" -> "the buyer may not assign this co"
      [] OTHER -> value

\* The number of entries of self.party_indicators, and the passes of
\* extract_parties: 1 is the BETWEEN pattern, 2 .. 23 the indicators in
\* list order, 24 the "hereinafter" pattern.
NumIndicators == 22
PartyPasses == NumIndicators + 2

\* The matches of the party patterns in each sentence (len filters applied)
party_matches ==
    [f \in Fragments |->
      CASE f = "This agreement is made between Acme Traders Private Limited, a firm of traders" ->
               << [pass |-> 1, value |-> "Acme Traders Private Limited"],
                  [pass |-> 2, value |-> "This agreement is made between Acme Traders Private Limited"],
                  [pass |-> 4, value |-> "This agreement is made between Acme Traders Private Limited"] >>
        [] f = "the courts at Mumbai shall have exclusive jurisdiction" ->
               << [pass |-> 16, value |-> "the co"] >>
        [] f = "subject to MUMBAI courts, and no other" ->
               << [pass |-> 16, value |-> "subject to MUMBAI co"] >>
        [] f = "the Buyer may not assign this contract" ->
               << [pass |-> 16, value |-> "the Buyer may not assign this co"] >>
        [] OTHER -> <<>> ]

\* What doc.ents of the optional spaCy model holds for each sentence: the
\* organisation named in it.
ner_matches ==
    [f \in Fragments |->
      IF f = "This agreement is made between Acme Traders Private Limited, a firm of traders"
      THEN << [label |-> "ORG", text |-> "Acme Traders"] >> ELSE <<>> ]

\* The matches of the three date families in each sentence, with the parsed
\* date as strftime('%Y-%m-%d') renders it and the re-tagging keywords the
\* sentence puts into the 40-character context window.
date_matches ==
    [f \in Fragments |->
      IF f = "this deed is effective once signed by both sides on 15 January 2026"
      THEN << [pass |-> 3, value |-> "15 January 2026", parsed |-> "2026-01-15",
               context |-> {"effective", "sign"}] >>
      ELSE <<>> ]

\* The matches of the currency patterns in each sentence: match.group(0),
\* float(group(1)) and the re-tagging keywords in the 50-character window.
amount_matches ==
    [f \in Fragments |->
      CASE f = "a penalty of Rs. 500 applies" ->
               << [pass |-> 1, value |-> "Rs. 500", number |-> 500, context |-> {"penalty"}] >>
        [] f = "a penalty of 5 lakhs applies" ->
               << [pass |-> 5, value |-> "5 lakhs", number |-> 5, context |-> {"penalty"}] >>
        [] f = "a penalty of 2 crores applies" ->
               << [pass |-> 6, value |-> "2 crores", number |-> 2, context |-> {"penalty"}] >>
        [] OTHER -> <<>> ]

\* The matches of the combined duration pattern: group(0), group(1), group(2)
duration_matches ==
    [f \in Fragments |->
      IF f \in {"by giving prior written notice of 30 days",
                "the Supplier shall deliver the machinery within 30 days"}
      THEN << [pass |-> 1, value |-> "30 days", number |-> 30, unit |-> "days"] >>
      ELSE <<>> ]

\* The matches of the jurisdiction patterns: passes 1 and 2 are the two
\* clause patterns, pass 3 the gazetteer scan (kept only with a legal keyword
\* within 100 characters); is_indian: a gazetteer name occurs in the value.
jurisdiction_matches ==
    [f \in Fragments |->
      CASE f = "the courts at Mumbai shall have exclusive jurisdiction" ->
               << [pass |-> 2, value |-> "Mumbai", is_indian |-> TRUE],
                  [pass |-> 3, value |-> "Mumbai", is_indian |-> TRUE] >>
        [] f = "subject to MUMBAI courts, and no other" ->
               << [pass |-> 1, value |-> "MUMBAI courts", is_indian |-> TRUE],
                  [pass |-> 3, value |-> "MUMBAI", is_indian |-> TRUE] >>
        [] OTHER -> <<>> ]

\* The statement each keyword list extracts from the sentence (at most one
\* per sentence and list: the first keyword found wins)
keyword_matches ==
    [f \in Fragments |->
      CASE f = "the courts at Mumbai shall have exclusive jurisdiction" ->
               [obligations |-> << [pass |-> 1, value |-> "shall have exclusive jurisdiction"] >>,
                rights |-> <<>>, prohibitions |-> <<>>]
        [] f = "the Supplier shall deliver the machinery within 30 days" ->
               [obligations |-> << [pass |-> 1, value |-> "shall deliver the machinery within 30 days"] >>,
                rights |-> <<>>, prohibitions |-> <<>>]
        [] f = "the Buyer may not assign this contract" ->
               [obligations |-> <<>>,
                rights |-> << [pass |-> 1, value |-> "may not assign this contract"] >>,
                prohibitions |-> << [pass |-> 1, value |-> "may not assign this contract"] >>]
        [] OTHER -> [obligations |-> <<>>, rights |-> <<>>, prohibitions |-> <<>>] ]

\* The matches of the three deliverable patterns (length between 6 and 199)
deliverable_matches ==
    [f \in Fragments |->
      IF f = "the Supplier shall deliver the machinery within 30 days"
      THEN << [pass |-> 1, value |-> "machinery"] >> ELSE <<>> ]

\* The matches of the notice-period pattern: group(1) and group(2)
notice_matches ==
    [f \in Fragments |->
      IF f = "by giving prior written notice of 30 days"
      THEN << [pass |-> 1, number |-> 30, unit |-> "days", value |-> "30 days"] >> ELSE <<>> ]

\* The matches in the order a "for pattern ...: for match in finditer(...)"
\* double loop meets them: by pass, and within a pass in text order.
PassMajor(text, matches, passes) ==
    Flatten([p \in 1..passes |->
                Flatten([i \in DOMAIN text |-> SelectSeq(matches[text[i]], LAMBDA m : m.pass = p)])])

\* the LegalEntity fields the model keeps
LegalEntity(entity_type, value, normalized_value) ==
    [entity_type |-> entity_type, value |-> value, normalized_value |-> normalized_value]

RECURSIVE Unique(_, _)
\* the loop of _deduplicate_entities, with the keys seen so far
Unique(entities, seen) ==
    IF entities = <<>> THEN <<>>
    ELSE LET entity == Head(entities)
             key == <<entity.entity_type, lower(entity.value)>>
         IN  IF key \in seen THEN Unique(Tail(entities), seen)
             ELSE <<entity>> \o Unique(Tail(entities), seen \cup {key})

\* _deduplicate_entities: the first entity of every (entity_type, value.lower().strip())
_deduplicate_entities(entities) == Unique(entities, {})

RECURSIVE AddParties(_, _)
\* The appends of extract_parties before the spaCy pass: an indicator match
\* is skipped when its value is already among the parties.
AddParties(matches, parties) ==
    IF matches = <<>> THEN parties
    ELSE LET m == Head(matches)
             skip == /\ m.pass \in 2..(NumIndicators + 1)
                     /\ \E k \in DOMAIN parties : parties[k].value = m.value
         IN  AddParties(Tail(matches),
                        IF skip THEN parties ELSE Append(parties, LegalEntity("PARTY", m.value, "")))

RECURSIVE AddNer(_, _)
\* The spaCy pass: an ORG or PERSON span is appended unless a party has the
\* same lower-cased value.
AddNer(ents, parties) ==
    IF ents = <<>> THEN parties
    ELSE LET ent == Head(ents)
             add == /\ ent.label \in {"ORG", "PERSON"}
                    /\ ~\E k \in DOMAIN parties : lower(parties[k].value) = lower(ent.text)
         IN  AddNer(Tail(ents),
                    IF add THEN Append(parties, LegalEntity("PARTY", ent.text, "")) ELSE parties)

extract_parties(text, nlp) ==
    LET parties == AddParties(PassMajor(text, party_matches, PartyPasses), <<>>)
        ents == Flatten([i \in DOMAIN text |-> ner_matches[text[i]]])
    IN  _deduplicate_entities(IF nlp THEN AddNer(ents, parties) ELSE parties)

\* "Identify date types based on context": the if / elif chain
date_type(context) ==
    IF context \cap {"effective", "commencement"} # {} THEN "EFFECTIVE_DATE"
    ELSE IF context \cap {"expir", "terminat"} # {} THEN "EXPIRY_DATE"
    ELSE IF context \cap {"sign", "execut"} # {} THEN "EXECUTION_DATE"
    ELSE "DATE"

extract_dates(text) ==
    LET matches == PassMajor(text, date_matches, 3)
    IN  _deduplicate_entities([k \in DOMAIN matches |->
            LegalEntity(date_type(matches[k].context), matches[k].value, matches[k].parsed)])

\* "Identify amount types based on context": the if / elif chain
amount_type(context) ==
    IF context \cap {"penalty", "fine"} # {} THEN "PENALTY_AMOUNT"
    ELSE IF context \cap {"payment", "fee", "consideration"} # {} THEN "PAYMENT_AMOUNT"
    ELSE IF context \cap {"deposit", "security"} # {} THEN "DEPOSIT_AMOUNT"
    ELSE IF context \cap {"liability", "cap"} # {} THEN "LIABILITY_CAP"
    ELSE "AMOUNT"

RECURSIVE NormalizeAmounts(_, _)
\* The inner loop of extract_amounts over the matches of one pattern.  The
\* loop variable currency_type is overwritten with 'INR' by the first lakh or
\* crore match and stays so for the later matches of the same pattern.
NormalizeAmounts(matches, currency_type) ==
    IF matches = <<>> THEN <<>>
    ELSE LET m == Head(matches)
             normalized == IF currency_type = "INR_LAKH" THEN m.number * 100000
                           ELSE IF currency_type = "INR_CRORE" THEN m.number * 10000000
                           ELSE m.number
             label == IF currency_type \in {"INR_LAKH", "INR_CRORE"} THEN "INR" ELSE currency_type
         IN  << LegalEntity(amount_type(m.context), m.value,
                            [currency |-> label, amount |-> normalized]) >>
                 \o NormalizeAmounts(Tail(matches), label)

\* The loop of extract_amounts over a list of (pattern, currency_type) pairs:
\* the list as collected
amounts_found(patterns, text) ==
    Flatten([p \in DOMAIN patterns |->
        NormalizeAmounts(Flatten([i \in DOMAIN text |->
                             SelectSeq(amount_matches[text[i]], LAMBDA m : m.pass = p)]),
                         patterns[p])])

\* extract_amounts: "for pattern, currency_type in self.currency_patterns"
extract_amounts(text) == amounts_found(ee_currency_patterns, text)

\* The list with 'INR' stored in place of the type of every lakh or crore
\* pattern that matched
patterns_overwritten(patterns, text) ==
    [p \in DOMAIN patterns |->
        IF /\ patterns[p] \in {"INR_LAKH", "INR_CRORE"}
           /\ \E i \in DOMAIN text : \E k \in DOMAIN amount_matches[text[i]] : amount_matches[text[i]][k].pass = p
        THEN "INR" ELSE patterns[p]]

\* self.currency_patterns once extract_amounts is through: "currency_type =
\* 'INR'" binds the loop variable anew and stores nothing in the list
patterns_after_loop(patterns, text) == patterns

\* "Normalize unit": by the first letters of the lower-cased unit
normalized_unit(unit) ==
    CASE unit \in {"year", "years", "yr", "yrs"} -> "years"
      [] unit \in {"month", "months", "mo", "mos"} -> "months"
      [] unit \in {"week", "weeks", "wk", "wks"} -> "weeks"
      [] unit \in {"day", "days"} -> "days"
      [] OTHER -> "hours"

\* extract_durations returns the list as collected
extract_durations(text) ==
    LET matches == PassMajor(text, duration_matches, 1)
    IN  [k \in DOMAIN matches |->
            LegalEntity("DURATION", matches[k].value,
                        [number |-> matches[k].number, unit |-> normalized_unit(matches[k].unit)])]

extract_jurisdictions(text) ==
    LET matches == PassMajor(text, jurisdiction_matches, 3)
    IN  _deduplicate_entities([k \in DOMAIN matches |->
            LegalEntity("JURISDICTION", matches[k].value,
                        IF matches[k].pass = 3 \/ matches[k].is_indian THEN "INDIA" ELSE "FOREIGN")])

\* extract_obligations / extract_rights / extract_prohibitions: the list as
\* collected, cut to its first 50 entries
extract_statements(text, list, entity_type) ==
    LET matches == Flatten([i \in DOMAIN text |-> keyword_matches[text[i]][list]])
    IN  Take([k \in DOMAIN matches |-> LegalEntity(entity_type, matches[k].value, "")], 50)

\* extract_deliverables: the list as collected, cut to its first 30 entries
extract_deliverables(text) ==
    LET matches == PassMajor(text, deliverable_matches, 3)
    IN  Take([k \in DOMAIN matches |-> LegalEntity("DELIVERABLE", matches[k].value, "")], 30)

\* extract_notice_periods returns the list as collected
extract_notice_periods(text) ==
    LET matches == PassMajor(text, notice_matches, 1)
    IN  [k \in DOMAIN matches |->
            LegalEntity("NOTICE_PERIOD", matches[k].value,
                        [number |-> matches[k].number, unit |-> matches[k].unit])]

extract_all_entities(text, nlp) ==
    [parties |-> extract_parties(text, nlp),
     dates |-> extract_dates(text),
     amounts |-> extract_amounts(text),
     durations |-> extract_durations(text),
     jurisdictions |-> extract_jurisdictions(text),
     obligations |-> extract_statements(text, "obligations", "OBLIGATION"),
     rights |-> extract_statements(text, "rights", "RIGHT"),
     prohibitions |-> extract_statements(text, "prohibitions", "PROHIBITION"),
     deliverables |-> extract_deliverables(text),
     notice_periods |-> extract_notice_periods(text)]

InitEntities ==
    /\ phase = "ready"
    /\ Idle

\* One call of LegalEntityExtractor.extract_all_entities
ExtractAllEntities ==
    /\ phase = "ready"
    /\ \E text \in SeqsUpTo(Fragments, MaxFragments), nlp \in BOOLEAN :
        /\ ee_text' = text
        /\ ee_ner' = nlp
        /\ ee_entities' = extract_all_entities(text, nlp)
        /\ ee_currency_patterns' = patterns_after_loop(ee_currency_patterns, text)
    /\ phase' = "returned"
    /\ UNCHANGED besidesEntities

\* The caller is done with the mapping; the extractor keeps its tables.
ReleaseEntities ==
    /\ phase = "returned"
    /\ phase' = "ready"
    /\ ee_text' = <<>>
    /\ ee_ner' = FALSE
    /\ ee_entities' = NoEntities
    /\ UNCHANGED ee_currency_patterns
    /\ UNCHANGED besidesEntities

NextEntities == ExtractAllEntities \/ ReleaseEntities

SpecEntities == InitEntities /\ [][NextEntities]_vars

(***************************************************************************)
(* Claims about LegalEntityExtractor                                       *)
(***************************************************************************)

\* the keys of the mapping extract_all_entities returns
EntityLists ==
    {"parties", "dates", "amounts", "durations", "jurisdictions", "obligations",
     "rights", "prohibitions", "deliverables", "notice_periods"}

\* C7: in every list of the mapping returned by extract_all_entities no two
\* entities share the same (entity_type, lower-cased value) pair.
C7_EntityDedup ==
    \A list \in EntityLists :
        \A i, j \in DOMAIN ee_entities[list] :
            (/\ ee_entities[list][i].entity_type = ee_entities[list][j].entity_type
             /\ lower(ee_entities[list][i].value) = lower(ee_entities[list][j].value))
                => i = j

\* the date matches of the sentences of a text
DateMatchesIn(text) ==
    UNION { { date_matches[text[i]][k] : k \in DOMAIN date_matches[text[i]] } : i \in DOMAIN text }

\* the rule applied last among the matching ones, the rules taken in the
\* order effective, expiry, execution
LastMatchingDateRule(context) ==
    IF context \cap {"sign", "execut"} # {} THEN "EXECUTION_DATE"
    ELSE IF context \cap {"expir", "terminat"} # {} THEN "EXPIRY_DATE"
    ELSE IF context \cap {"effective", "commencement"} # {} THEN "EFFECTIVE_DATE"
    ELSE "DATE"

\* C21: a date whose context holds keywords of more than one re-tagging rule
\* carries the entity_type of the last matching rule in the order effective,
\* expiry, execution: with 'effective' and 'sign' in the context the date is
\* an EXECUTION_DATE.
C21_LastDateRuleWins ==
    phase = "returned" =>
        \A m \in DateMatchesIn(ee_text) :
            \A j \in DOMAIN ee_entities.dates :
                ee_entities.dates[j].value = m.value
                    => ee_entities.dates[j].entity_type = LastMatchingDateRule(m.context)

\* the lakh and crore matches of the sentences of a text
LakhCroreMatchesIn(text) ==
    UNION { { amount_matches[text[i]][k] : k \in DOMAIN amount_matches[text[i]] } : i \in DOMAIN text }
        \cap { m \in UNION { { amount_matches[f][k] : k \in DOMAIN amount_matches[f] } : f \in Fragments } :
                   m.pass \in {5, 6} }

\* C22: every lakh match is normalized to its number times 100000 and every
\* crore match to its number times 10000000, labelled INR, and this holds
\* for every such match of a text, the later ones as well as the first.
C22_EveryLakhCroreNormalized ==
    phase = "returned" =>
        \A m \in LakhCroreMatchesIn(ee_text) :
            \A j \in DOMAIN ee_entities.amounts :
                ee_entities.amounts[j].value = m.value
                    => ee_entities.amounts[j].normalized_value =
                           [currency |-> "INR",
                            amount |-> m.number * (IF m.pass = 5 THEN 100000 ELSE 10000000)]

-----------------------------------------------------------------------------
(***************************************************************************)
(* SimilarityMatcher  (src/src/analysis/similarity_matcher.py)             *)
(*                                                                         *)
(* A similarity score is the fraction num / den that SequenceMatcher.ratio *)
(* returns: twice the size of the matching blocks over the summed lengths. *)
(* Of a SimilarityResult the model keeps the template clause it is about,  *)
(* the score and the match type.  quality_score and overall_similarity are *)
(* in 1/100.                                                               *)
(***************************************************************************)

\* One entry of a template table: the clause name, whether the clause is
\* required, its keywords, and len() of the lower-cased template text.  The
\* id tells apart clauses of different contract types with the same name.
Template(id, clause_name, required, keywords, length) ==
    [id |-> id, clause_name |-> clause_name, required |-> required,
     keywords |-> keywords, length |-> length]

\* self.standard_templates: the clauses of each contract type, in declaration order
standard_templates ==
    [t \in {"Employment Agreement", "Service Contract", "Non-Disclosure Agreement", "Lease Agreement"} |->
      CASE t = "Employment Agreement" ->
            << Template("employment.definitions", "definitions", TRUE,
                        <<"definitions", "means", "shall have the meaning">>, 248),
               Template("employment.position_duties", "position_duties", TRUE,
                        <<"position", "duties", "designation", "report to">>, 196),
               Template("employment.compensation", "compensation", TRUE,
                        <<"salary", "compensation", "payment", "per annum", "monthly">>, 167),
               Template("employment.working_hours", "working_hours", TRUE,
                        <<"working hours", "hours per day", "days per week">>, 176),
               Template("employment.leave", "leave", TRUE,
                        <<"leave", "paid leave", "holidays", "vacation">>, 126),
               Template("employment.confidentiality", "confidentiality", TRUE,
                        <<"confidential", "proprietary", "trade secret">>, 185),
               Template("employment.termination", "termination", TRUE,
                        <<"terminate", "termination", "notice period">>, 198),
               Template("employment.non_compete", "non_compete", FALSE,
                        <<"non-compete", "compete", "restriction">>, 157) >>
        [] t = "Service Contract" ->
            << Template("service.definitions", "definitions", TRUE,
                        <<"definitions", "client", "service provider", "services">>, 201),
               Template("service.scope_of_services", "scope_of_services", TRUE,
                        <<"scope", "services", "schedule", "deliverables">>, 160),
               Template("service.payment_terms", "payment_terms", TRUE,
                        <<"payment", "invoice", "fees", "compensation">>, 185),
               Template("service.timeline", "timeline", TRUE,
                        <<"timeline", "deadline", "milestone", "completion">>, 133),
               Template("service.warranties", "warranties", TRUE,
                        <<"warranty", "warrants", "professional", "standards">>, 146),
               Template("service.intellectual_property", "intellectual_property", TRUE,
                        <<"intellectual property", "ip", "ownership", "license">>, 162),
               Template("service.limitation_of_liability", "limitation_of_liability", TRUE,
                        <<"liability", "limitation", "damages", "cap">>, 196),
               Template("service.termination", "termination", TRUE,
                        <<"terminate", "termination", "notice">>, 164) >>
        [] t = "Non-Disclosure Agreement" ->
            << Template("non_disclosure.definitions", "definitions", TRUE,
                        <<"confidential information", "disclosing party", "receiving party">>, 241),
               Template("non_disclosure.obligations", "obligations", TRUE,
                        <<"maintain", "not disclose", "third party", "purpose">>, 195),
               Template("non_disclosure.exclusions", "exclusions", TRUE,
                        <<"exclude", "publicly available", "independently developed">>, 226),
               Template("non_disclosure.term", "term", TRUE,
                        <<"term", "years", "survive", "termination">>, 149),
               Template("non_disclosure.return_of_information", "return_of_information", TRUE,
                        <<"return", "destroy", "certify">>, 151) >>
        [] OTHER ->  \* Lease Agreement
            << Template("lease.premises", "premises", TRUE,
                        <<"premises", "located at", "address", "property">>, 146),
               Template("lease.term", "term", TRUE,
                        <<"term", "commence", "period", "months", "years">>, 148),
               Template("lease.rent", "rent", TRUE,
                        <<"rent", "monthly", "payable", "payment">>, 142),
               Template("lease.security_deposit", "security_deposit", TRUE,
                        <<"security deposit", "deposit", "refund">>, 184),
               Template("lease.maintenance", "maintenance", TRUE,
                        <<"maintenance", "repair", "condition">>, 135),
               Template("lease.termination", "termination", TRUE,
                        <<"terminate", "termination", "notice", "early termination">>, 156) >> ]

\* self.universal_clauses, in declaration order
universal_clauses ==
    << Template("universal.governing_law", "governing_law", TRUE,
                <<"governing law", "jurisdiction", "courts", "laws of india">>, 143),
       Template("universal.dispute_resolution", "dispute_resolution", TRUE,
                <<"dispute", "resolution", "arbitration", "mediation", "negotiation">>, 180),
       Template("universal.entire_agreement", "entire_agreement", TRUE,
                <<"entire agreement", "supersedes", "prior">>, 139),
       Template("universal.amendment", "amendment", TRUE,
                <<"amendment", "modify", "written", "signed">>, 82),
       Template("universal.severability", "severability", FALSE,
                <<"severability", "invalid", "unenforceable", "remaining">>, 134),
       Template("universal.notices", "notices", TRUE,
                <<"notice", "notices", "writing", "address">>, 142) >>

\* The sentences the texts handed to compare_to_template are made of; a text
\* is the catalogue numbers of its sentences, joined by ". " in that order.
SimSentences ==
    << "this agreement is governed by the laws of india and the courts of pune have exclusive jurisdiction",
       "this agreement is the entire agreement between the parties, supersedes all prior agreements and may only be amended by a written instrument signed by both parties",
       "if any provision is held invalid or unenforceable, the remaining provisions continue in force",
       "any dispute shall be referred to arbitration and all letters shall be sent in writing to the address of the party",
       "the employee shall not compete with the employer and the courts may enforce this restriction",
       "the monthly rent for units 101, 102, 103, 104, 105, 106, 107, 108, 109, 110, 111, 112, 113, 114, 115, 116, 117, 118, 119, 120, 121, 122, 123, 124, 125, 126, 127, 128, 129, 130, 131, 132, 133, 134, 135, 136, 137, 138, 139 and 140 is 9000" >>

\* len() of each sentence
sentence_length == << 98, 162, 93, 113, 92, 236 >>

\* The keywords of the template tables that occur in each sentence ("kw in
\* text"); no keyword spans two sentences.
sentence_keywords ==
    << {"courts", "jurisdiction", "laws of india"},
       {"entire agreement", "prior", "signed", "supersedes", "written"},
       {"invalid", "remaining", "unenforceable"},
       {"address", "arbitration", "dispute", "writing"},
       {"compete", "courts", "restriction"},
       {"monthly", "rent"} >>

\* difflib.SequenceMatcher over a window of sentences and a template: the
\* total size of the matching blocks, for every window that holds enough
\* keywords of the template to be scored.
matching_blocks ==
    [id \in {"employment.non_compete", "universal.governing_law", "universal.dispute_resolution", "universal.entire_agreement", "universal.amendment", "universal.severability", "universal.notices", "lease.rent"} |->
      CASE id = "employment.non_compete" ->
             (<<5>> :> 52 @@ <<1, 5>> :> 70 @@ <<2, 5>> :> 68 @@ <<3, 5>> :> 62 @@
              <<4, 5>> :> 67 @@ <<5, 6>> :> 53 @@ <<1, 2, 5>> :> 71 @@ <<1, 3, 5>> :> 71 @@
              <<1, 4, 5>> :> 70 @@ <<1, 5, 6>> :> 71 @@ <<2, 3, 5>> :> 74 @@ <<2, 4, 5>> :> 74 @@
              <<2, 5, 6>> :> 69 @@ <<3, 4, 5>> :> 77 @@ <<3, 5, 6>> :> 63 @@ <<4, 5, 6>> :> 68 @@
              <<1, 2, 3, 5>> :> 71 @@ <<1, 2, 4, 5>> :> 82 @@ <<1, 2, 5, 6>> :> 72 @@ <<1, 3, 4, 5>> :> 75 @@
              <<1, 3, 5, 6>> :> 72 @@ <<1, 4, 5, 6>> :> 71 @@ <<2, 3, 4, 5>> :> 74 @@ <<2, 3, 5, 6>> :> 75 @@
              <<2, 4, 5, 6>> :> 75 @@ <<3, 4, 5, 6>> :> 78 @@ <<1, 2, 3, 4, 5>> :> 82 @@ <<1, 2, 3, 5, 6>> :> 72 @@
              <<1, 2, 4, 5, 6>> :> 83 @@ <<1, 3, 4, 5, 6>> :> 76 @@ <<2, 3, 4, 5, 6>> :> 75)
        [] id = "universal.governing_law" ->
             (<<1>> :> 89 @@ <<1, 2>> :> 90 @@ <<1, 3>> :> 90 @@ <<1, 4>> :> 90 @@
              <<1, 5>> :> 90 @@ <<1, 6>> :> 90 @@ <<1, 2, 3>> :> 90 @@ <<1, 2, 4>> :> 90 @@
              <<1, 2, 5>> :> 90 @@ <<1, 2, 6>> :> 90 @@ <<1, 3, 4>> :> 90 @@ <<1, 3, 5>> :> 90 @@
              <<1, 3, 6>> :> 90 @@ <<1, 4, 5>> :> 90 @@ <<1, 4, 6>> :> 90 @@ <<1, 5, 6>> :> 90 @@
              <<1, 2, 3, 4>> :> 90 @@ <<1, 2, 3, 5>> :> 90 @@ <<1, 2, 3, 6>> :> 90 @@ <<1, 2, 4, 5>> :> 90 @@
              <<1, 2, 4, 6>> :> 90 @@ <<1, 2, 5, 6>> :> 90 @@ <<1, 3, 4, 5>> :> 90 @@ <<1, 3, 4, 6>> :> 90 @@
              <<1, 3, 5, 6>> :> 90 @@ <<1, 4, 5, 6>> :> 90 @@ <<1, 2, 3, 4, 5>> :> 90 @@ <<1, 2, 3, 4, 6>> :> 90 @@
              <<1, 2, 3, 5, 6>> :> 90 @@ <<1, 2, 4, 5, 6>> :> 90 @@ <<1, 3, 4, 5, 6>> :> 90)
        [] id = "universal.dispute_resolution" ->
             (<<4>> :> 48 @@ <<1, 4>> :> 89 @@ <<2, 4>> :> 94 @@ <<3, 4>> :> 79 @@
              <<4, 5>> :> 49 @@ <<4, 6>> :> 49 @@ <<1, 2, 4>> :> 108 @@ <<1, 3, 4>> :> 101 @@
              <<1, 4, 5>> :> 90 @@ <<1, 4, 6>> :> 90 @@ <<2, 3, 4>> :> 106 @@ <<2, 4, 5>> :> 95 @@
              <<2, 4, 6>> :> 95 @@ <<3, 4, 5>> :> 80 @@ <<3, 4, 6>> :> 80 @@ <<4, 5, 6>> :> 50 @@
              <<1, 2, 3, 4>> :> 120 @@ <<1, 2, 4, 5>> :> 109 @@ <<1, 2, 4, 6>> :> 109 @@ <<1, 3, 4, 5>> :> 102 @@
              <<1, 3, 4, 6>> :> 102 @@ <<1, 4, 5, 6>> :> 91 @@ <<2, 3, 4, 5>> :> 107 @@ <<2, 3, 4, 6>> :> 107 @@
              <<2, 4, 5, 6>> :> 96 @@ <<3, 4, 5, 6>> :> 81 @@ <<1, 2, 3, 4, 5>> :> 121 @@ <<1, 2, 3, 4, 6>> :> 121 @@
              <<1, 2, 4, 5, 6>> :> 110 @@ <<1, 3, 4, 5, 6>> :> 103 @@ <<2, 3, 4, 5, 6>> :> 108)
        [] id = "universal.entire_agreement" ->
             (<<2>> :> 90 @@ <<1, 2>> :> 96 @@ <<2, 3>> :> 91 @@ <<2, 4>> :> 91 @@
              <<2, 5>> :> 91 @@ <<2, 6>> :> 91 @@ <<1, 2, 3>> :> 97 @@ <<1, 2, 4>> :> 97 @@
              <<1, 2, 5>> :> 97 @@ <<1, 2, 6>> :> 97 @@ <<2, 3, 4>> :> 91 @@ <<2, 3, 5>> :> 91 @@
              <<2, 3, 6>> :> 91 @@ <<2, 4, 5>> :> 91 @@ <<2, 4, 6>> :> 91 @@ <<2, 5, 6>> :> 91 @@
              <<1, 2, 3, 4>> :> 97 @@ <<1, 2, 3, 5>> :> 97 @@ <<1, 2, 3, 6>> :> 97 @@ <<1, 2, 4, 5>> :> 97 @@
              <<1, 2, 4, 6>> :> 97 @@ <<1, 2, 5, 6>> :> 97 @@ <<2, 3, 4, 5>> :> 91 @@ <<2, 3, 4, 6>> :> 91 @@
              <<2, 3, 5, 6>> :> 91 @@ <<2, 4, 5, 6>> :> 91 @@ <<1, 2, 3, 4, 5>> :> 97 @@ <<1, 2, 3, 4, 6>> :> 97 @@
              <<1, 2, 3, 5, 6>> :> 97 @@ <<1, 2, 4, 5, 6>> :> 97 @@ <<2, 3, 4, 5, 6>> :> 91)
        [] id = "universal.amendment" ->
             (<<2>> :> 81 @@ <<1, 2>> :> 81 @@ <<2, 3>> :> 82 @@ <<2, 4>> :> 82 @@
              <<2, 5>> :> 82 @@ <<2, 6>> :> 82 @@ <<1, 2, 3>> :> 82 @@ <<1, 2, 4>> :> 82 @@
              <<1, 2, 5>> :> 82 @@ <<1, 2, 6>> :> 82 @@ <<2, 3, 4>> :> 82 @@ <<2, 3, 5>> :> 82 @@
              <<2, 3, 6>> :> 82 @@ <<2, 4, 5>> :> 82 @@ <<2, 4, 6>> :> 82 @@ <<2, 5, 6>> :> 82 @@
              <<1, 2, 3, 4>> :> 82 @@ <<1, 2, 3, 5>> :> 82 @@ <<1, 2, 3, 6>> :> 82 @@ <<1, 2, 4, 5>> :> 82 @@
              <<1, 2, 4, 6>> :> 82 @@ <<1, 2, 5, 6>> :> 82 @@ <<2, 3, 4, 5>> :> 82 @@ <<2, 3, 4, 6>> :> 82 @@
              <<2, 3, 5, 6>> :> 82 @@ <<2, 4, 5, 6>> :> 82 @@ <<1, 2, 3, 4, 5>> :> 82 @@ <<1, 2, 3, 4, 6>> :> 82 @@
              <<1, 2, 3, 5, 6>> :> 82 @@ <<1, 2, 4, 5, 6>> :> 82 @@ <<2, 3, 4, 5, 6>> :> 82)
        [] id = "universal.severability" ->
             (<<3>> :> 93 @@ <<1, 3>> :> 93 @@ <<2, 3>> :> 93 @@ <<3, 4>> :> 100 @@
              <<3, 5>> :> 102 @@ <<3, 6>> :> 98 @@ <<1, 2, 3>> :> 93 @@ <<1, 3, 4>> :> 100 @@
              <<1, 3, 5>> :> 102 @@ <<1, 3, 6>> :> 98 @@ <<2, 3, 4>> :> 100 @@ <<2, 3, 5>> :> 102 @@
              <<2, 3, 6>> :> 98 @@ <<3, 4, 5>> :> 103 @@ <<3, 4, 6>> :> 101 @@ <<3, 5, 6>> :> 102 @@
              <<1, 2, 3, 4>> :> 100 @@ <<1, 2, 3, 5>> :> 102 @@ <<1, 2, 3, 6>> :> 98 @@ <<1, 3, 4, 5>> :> 103 @@
              <<1, 3, 4, 6>> :> 101 @@ <<1, 3, 5, 6>> :> 102 @@ <<2, 3, 4, 5>> :> 103 @@ <<2, 3, 4, 6>> :> 101 @@
              <<2, 3, 5, 6>> :> 102 @@ <<3, 4, 5, 6>> :> 103 @@ <<1, 2, 3, 4, 5>> :> 103 @@ <<1, 2, 3, 4, 6>> :> 101 @@
              <<1, 2, 3, 5, 6>> :> 102 @@ <<1, 3, 4, 5, 6>> :> 103 @@ <<2, 3, 4, 5, 6>> :> 103)
        [] id = "universal.notices" ->
             (<<4>> :> 52 @@ <<1, 4>> :> 59 @@ <<2, 4>> :> 59 @@ <<3, 4>> :> 56 @@
              <<4, 5>> :> 63 @@ <<4, 6>> :> 59 @@ <<1, 2, 4>> :> 67 @@ <<1, 3, 4>> :> 59 @@
              <<1, 4, 5>> :> 70 @@ <<1, 4, 6>> :> 66 @@ <<2, 3, 4>> :> 59 @@ <<2, 4, 5>> :> 70 @@
              <<2, 4, 6>> :> 66 @@ <<3, 4, 5>> :> 67 @@ <<3, 4, 6>> :> 63 @@ <<4, 5, 6>> :> 64 @@
              <<1, 2, 3, 4>> :> 67 @@ <<1, 2, 4, 5>> :> 78 @@ <<1, 2, 4, 6>> :> 74 @@ <<1, 3, 4, 5>> :> 70 @@
              <<1, 3, 4, 6>> :> 66 @@ <<1, 4, 5, 6>> :> 71 @@ <<2, 3, 4, 5>> :> 70 @@ <<2, 3, 4, 6>> :> 66 @@
              <<2, 4, 5, 6>> :> 71 @@ <<3, 4, 5, 6>> :> 68 @@ <<1, 2, 3, 4, 5>> :> 78 @@ <<1, 2, 3, 4, 6>> :> 74 @@
              <<1, 2, 4, 5, 6>> :> 79 @@ <<1, 3, 4, 5, 6>> :> 71 @@ <<2, 3, 4, 5, 6>> :> 71)
        [] OTHER ->  \* lease.rent
             (<<6>> :> 27 @@ <<1, 6>> :> 34 @@ <<2, 6>> :> 41 @@ <<3, 6>> :> 33 @@
              <<4, 6>> :> 36 @@ <<5, 6>> :> 42 @@ <<1, 2, 6>> :> 43 @@ <<1, 3, 6>> :> 34 @@
              <<1, 4, 6>> :> 41 @@ <<1, 5, 6>> :> 44 @@ <<2, 3, 6>> :> 41 @@ <<2, 4, 6>> :> 42 @@
              <<2, 5, 6>> :> 44 @@ <<3, 4, 6>> :> 42 @@ <<3, 5, 6>> :> 44 @@ <<4, 5, 6>> :> 44 @@
              <<1, 2, 3, 6>> :> 43 @@ <<1, 2, 4, 6>> :> 43 @@ <<1, 2, 5, 6>> :> 45 @@ <<1, 3, 4, 6>> :> 41 @@
              <<1, 3, 5, 6>> :> 44 @@ <<1, 4, 5, 6>> :> 45 @@ <<2, 3, 4, 6>> :> 42 @@ <<2, 3, 5, 6>> :> 44 @@
              <<2, 4, 5, 6>> :> 45 @@ <<3, 4, 5, 6>> :> 45 @@ <<1, 2, 3, 4, 6>> :> 43 @@ <<1, 2, 3, 5, 6>> :> 45 @@
              <<1, 2, 4, 5, 6>> :> 45 @@ <<1, 3, 4, 5, 6>> :> 45 @@ <<2, 3, 4, 5, 6>> :> 45) ]

\* clause_name.replace('_', ' ').title() over the clause names of the tables
title(clause_name) ==
    CASE clause_name = "definitions" -> "Definitions"
      [] clause_name = "position_duties" -> "Position Duties"
      [] clause_name = "compensation" -> "Compensation"
      [] clause_name = "working_hours" -> "Working Hours"
      [] clause_name = "leave" -> "Leave"
      [] clause_name = "confidentiality" -> "Confidentiality"
      [] clause_name = "termination" -> "Termination"
      [] clause_name = "non_compete" -> "Non Compete"
      [] clause_name = "scope_of_services" -> "Scope Of Services"
      [] clause_name = "payment_terms" -> "Payment Terms"
      [] clause_name = "timeline" -> "Timeline"
      [] clause_name = "warranties" -> "Warranties"
      [] clause_name = "intellectual_property" -> "Intellectual Property"
      [] clause_name = "limitation_of_liability" -> "Limitation Of Liability"
      [] clause_name = "obligations" -> "Obligations"
      [] clause_name = "exclusions" -> "Exclusions"
      [] clause_name = "term" -> "Term"
      [] clause_name = "return_of_information" -> "Return Of Information"
      [] clause_name = "premises" -> "Premises"
      [] clause_name = "rent" -> "Rent"
      [] clause_name = "security_deposit" -> "Security Deposit"
      [] clause_name = "maintenance" -> "Maintenance"
      [] clause_name = "governing_law" -> "Governing Law"
      [] clause_name = "dispute_resolution" -> "Dispute Resolution"
      [] clause_name = "entire_agreement" -> "Entire Agreement"
      [] clause_name = "amendment" -> "Amendment"
      [] clause_name = "severability" -> "Severability"
      [] clause_name = "notices" -> "Notices"


\* The applicable templates when a known type hides the universal clauses
all_templates_type_only(contract_type) ==
    IF contract_type \in DOMAIN standard_templates
    THEN standard_templates[contract_type]
    ELSE universal_clauses

\* {**type_templates, **self.universal_clauses}: the clauses of the type (none
\* for a type without an entry), a universal clause replacing one of the same
\* name, then the other universal clauses
all_templates(contract_type) ==
    LET type_templates == IF contract_type \in DOMAIN standard_templates
                          THEN standard_templates[contract_type] ELSE <<>>
        names(ts) == {ts[i].clause_name : i \in DOMAIN ts}
        universal(name) == CHOOSE u \in {universal_clauses[i] : i \in DOMAIN universal_clauses} :
                               u.clause_name = name
    IN  [i \in DOMAIN type_templates |->
            IF type_templates[i].clause_name \in names(universal_clauses)
            THEN universal(type_templates[i].clause_name) ELSE type_templates[i]]
        \o SelectSeq(universal_clauses, LAMBDA u : u.clause_name \notin names(type_templates))

\* sum(1 for kw in keywords if kw.lower() in section)
keywords_in(section, keywords) ==
    Cardinality({k \in DOMAIN keywords :
                    \E i \in DOMAIN section : keywords[k] \in sentence_keywords[section[i]]})

\* len() of '. '.join(sentences[i:j]) once blanks are normalised
section_length(section) ==
    SeqSum([i \in DOMAIN section |-> sentence_length[section[i]]]) + 2 * (Len(section) - 1)

\* _calculate_similarity: SequenceMatcher(None, text1, text2).ratio() = 2 * M / T
_calculate_similarity(section, template) ==
    [num |-> 2 * matching_blocks[template.id][section], den |-> section_length(section) + template.length]

\* comparisons of a score with another score and with a decimal in 1/10
Greater(a, b) == a.num * b.den > b.num * a.den
Above(score, tenths) == 10 * score.num > tenths * score.den
AtLeast(score, tenths) == 10 * score.num >= tenths * score.den

\* A mutant of sections_of: only the windows of one sentence are visited.
sections_of_single(text) ==
    [i \in DOMAIN text |-> SubSeq(text, i, i)]

\* The sections the two nested loops visit, in order: up to 5 consecutive
\* sentences from each start
sections_of(text) ==
    Flatten([i \in DOMAIN text |->
                [k \in 1..(Min(i + 4, Len(text)) - i + 1) |-> SubSeq(text, i, i + k - 1)]])

RECURSIVE best_section(_, _, _)
\* The loop over the sections: a section with too few keywords is skipped, a
\* strictly better score replaces best_score
best_section(sections, template, best_score) ==
    IF sections = <<>> THEN best_score
    ELSE LET section == Head(sections)
             skip == 10 * keywords_in(section, template.keywords) < 3 * Len(template.keywords)
             score == _calculate_similarity(section, template)
         IN  best_section(Tail(sections), template,
                          IF ~skip /\ Greater(score, best_score) THEN score ELSE best_score)

\* _find_matching_clause: 'found' and 'score' of the result dict
_find_matching_clause(text, template) ==
    LET not_found == [found |-> FALSE, score |-> [num |-> 0, den |-> 1]]
        keywords == template.keywords
    IN  IF keywords = <<>> \/ 10 * keywords_in(text, keywords) < 3 * Len(keywords) THEN not_found
        ELSE LET best_score == best_section(sections_of(text), template, [num |-> 0, den |-> 1])
             IN  IF Above(best_score, 2) THEN [found |-> TRUE, score |-> best_score] ELSE not_found

_score_to_match_type(score) ==
    IF AtLeast(score, 8) THEN "exact"
    ELSE IF AtLeast(score, 6) THEN "high"
    ELSE IF AtLeast(score, 4) THEN "medium"
    ELSE IF AtLeast(score, 2) THEN "low"
    ELSE "no_match"

\* SimilarityMatcher._generate_recommendations: the note for the quality band,
\* the missing clauses to add (the first 5), the count of matches under 0.4
similarity_recommendations(matched, missing, matched_required, required_count) ==
    LET quality == [num |-> matched_required, den |-> required_count]
        low_matches == Cardinality({k \in DOMAIN matched : ~AtLeast(matched[k].similarity_score, 4)})
        note(advice, clauses, count) == [advice |-> advice, clauses |-> clauses, count |-> count]
    IN  << note(IF required_count > 0 /\ AtLeast(quality, 8) THEN "aligns well"
                ELSE IF required_count > 0 /\ AtLeast(quality, 6) THEN "needs some additions"
                ELSE "missing several", <<>>, 0) >>
        \o (IF missing # <<>> THEN << note("add missing clauses", Take(missing, 5), 0) >> ELSE <<>>)
        \o (IF low_matches > 0 THEN << note("review and strengthen", <<>>, low_matches) >> ELSE <<>>)

\* compare_to_template: the TemplateComparisonReport
compare_to_template(contract_text, contract_type) ==
    LET templates == all_templates(contract_type)
        match_result == [i \in DOMAIN templates |-> _find_matching_clause(contract_text, templates[i])]
        order == [i \in DOMAIN templates |-> i]
        found == SelectSeq(order, LAMBDA i : match_result[i].found)
        lacking == SelectSeq(order, LAMBDA i : ~match_result[i].found /\ templates[i].required)
        matched_clauses == [k \in DOMAIN found |->
                               [template_clause |-> templates[found[k]].id,
                                similarity_score |-> match_result[found[k]].score,
                                match_type |-> _score_to_match_type(match_result[found[k]].score)]]
        missing_clauses == [k \in DOMAIN lacking |-> title(templates[lacking[k]].clause_name)]
        \* each score to six decimals
        total == SeqSum([k \in DOMAIN matched_clauses |->
                            (matched_clauses[k].similarity_score.num * 1000000)
                                \div matched_clauses[k].similarity_score.den])
        required_count == Cardinality({i \in DOMAIN templates : templates[i].required})
        matched_required == Cardinality({k \in DOMAIN matched_clauses :
                                            Above(matched_clauses[k].similarity_score, 3)})
    IN  [contract_type |-> contract_type,
         overall_similarity |-> IF matched_clauses # <<>>
                                THEN RoundHalfEven(total, 10000 * Len(matched_clauses)) ELSE 0,
         matched_clauses |-> matched_clauses,
         missing_clauses |-> missing_clauses,
         extra_clauses |-> <<>>,
         quality_score |-> IF required_count > 0
                           THEN RoundHalfEven(100 * matched_required, required_count) ELSE 0,
         recommendations |-> similarity_recommendations(matched_clauses, missing_clauses,
                                                        matched_required, required_count)]

\* The texts: the sentences of any part of the catalogue, in catalogue order
SimTexts ==
    {SelectSeq([i \in DOMAIN SimSentences |-> i], LAMBDA i : i \in part) :
        part \in SUBSET DOMAIN SimSentences}

\* The contract_type arguments: the known types, the empty string, and a type
\* with no templates
MatcherTypes == DOMAIN standard_templates \cup {"", "Franchise Agreement"}

InitMatcher ==
    /\ phase = "ready"
    /\ Idle

\* One call of SimilarityMatcher.compare_to_template
CompareToTemplate ==
    /\ phase = "ready"
    /\ \E contract_text \in SimTexts, contract_type \in MatcherTypes :
        /\ sm_text' = contract_text
        /\ sm_type' = contract_type
        /\ sm_report' = compare_to_template(contract_text, contract_type)
    /\ phase' = "returned"
    /\ UNCHANGED besidesMatcher

\* The caller is done with the report; the matcher keeps nothing of it.
ReleaseMatcher ==
    /\ phase = "returned"
    /\ phase' = "ready"
    /\ sm_text' = <<>>
    /\ sm_type' = ""
    /\ sm_report' = NoComparison
    /\ UNCHANGED besidesMatcher

NextMatcher == CompareToTemplate \/ ReleaseMatcher

SpecMatcher == InitMatcher /\ [][NextMatcher]_vars

(***************************************************************************)
(* Properties of the template comparison                                   *)
(***************************************************************************)

\* A report has been returned by compare_to_template (it always carries the
\* note for the quality band)
ComparisonReturned == sm_report.recommendations # <<>>

\* The template clauses that apply to contract_type, read from the two tables
ApplicableTemplates(contract_type) ==
    {universal_clauses[i] : i \in DOMAIN universal_clauses}
    \cup (IF contract_type \in DOMAIN standard_templates
          THEN {standard_templates[contract_type][i] : i \in DOMAIN standard_templates[contract_type]}
          ELSE {})

MatchedIds == {sm_report.matched_clauses[k].template_clause : k \in DOMAIN sm_report.matched_clauses}

MissingNames == {sm_report.missing_clauses[k] : k \in DOMAIN sm_report.missing_clauses}

\* C8: quality_score is the number of required template clauses matched with
\* a similarity score above 0.3 divided by the number of required template
\* clauses (to two decimals); matches of optional clauses do not count, so
\* the score never exceeds 1.0.
C8_QualityOverRequiredOnly ==
    ComparisonReturned =>
        LET required == {t \in ApplicableTemplates(sm_type) : t.required}
            counted == {k \in DOMAIN sm_report.matched_clauses :
                           /\ \E t \in required : t.id = sm_report.matched_clauses[k].template_clause
                           /\ Above(sm_report.matched_clauses[k].similarity_score, 3)}
        IN  /\ sm_report.quality_score = RoundHalfEven(100 * Cardinality(counted), Cardinality(required))
            /\ sm_report.quality_score <= 100

\* The number of governing-law keywords that occur in the compared text
GoverningLawKeywordsInText ==
    LET governing_law == CHOOSE u \in ApplicableTemplates("") : u.clause_name = "governing_law"
    IN  Cardinality({k \in DOMAIN governing_law.keywords :
                        \E i \in DOMAIN sm_text : governing_law.keywords[k] \in sentence_keywords[sm_text[i]]})

\* C9: whatever the contract type, the universal clauses are checked: every
\* required clause of the type's templates and of the universal templates is
\* either matched or listed in missing_clauses under its title-cased name; a
\* text with fewer than 30% of the governing-law keywords has "Governing Law"
\* in missing_clauses; and for a type without templates the report speaks of
\* the universal clauses only.
C9_UniversalClausesChecked ==
    ComparisonReturned =>
        /\ \A t \in ApplicableTemplates(sm_type) :
               t.required => (t.id \in MatchedIds \/ title(t.clause_name) \in MissingNames)
        /\ 10 * GoverningLawKeywordsInText < 3 * 4 => "Governing Law" \in MissingNames
        /\ sm_type \notin DOMAIN standard_templates =>
               /\ MatchedIds \subseteq {t.id : t \in ApplicableTemplates("")}
               /\ MissingNames \subseteq {title(t.clause_name) : t \in {u \in ApplicableTemplates("") : u.required}}

\* A known type, a text with one of the four governing-law keywords and a
\* matched clause: "Governing Law" and a universal clause beside it are
\* reported missing
C9_Witness ==
    /\ ComparisonReturned
    /\ sm_type = "Employment Agreement"
    /\ GoverningLawKeywordsInText = 1
    /\ sm_report.matched_clauses # <<>>
    /\ "Governing Law" \in MissingNames
    /\ "Notices" \in MissingNames

\* the windows of 1 to 5 consecutive sentences of a text
Windows(text) ==
    {SubSeq(text, a, b) : a \in DOMAIN text, b \in DOMAIN text} \ {<<>>}

\* the windows that hold at least 30% of a template's keywords
KeywordWindows(text, t) ==
    {w \in Windows(text) : Len(w) <= 5 /\ 10 * keywords_in(w, t.keywords) >= 3 * Len(t.keywords)}

\* the entries of matched_clauses made for a template
MatchesOf(t) ==
    {k \in DOMAIN sm_report.matched_clauses : sm_report.matched_clauses[k].template_clause = t.id}

\* C26: a template clause is matched exactly when at least 30% of its
\* keywords occur in the text and some window of 1 to 5 consecutive sentences
\* that holds at least 30% of the keywords has a similarity ratio strictly
\* above 0.2; the score reported is the greatest ratio over these windows,
\* and no matched clause has match_type no_match.
C26_MatchFoundAndScored ==
    ComparisonReturned =>
        \A t \in ApplicableTemplates(sm_type) :
            LET enough == 10 * keywords_in(sm_text, t.keywords) >= 3 * Len(t.keywords)
                windows == KeywordWindows(sm_text, t)
                above == {w \in windows : Above(_calculate_similarity(w, t), 2)}
            IN  /\ MatchesOf(t) # {} <=> (enough /\ above # {})
                /\ Cardinality(MatchesOf(t)) <= 1
                /\ \A k \in MatchesOf(t) :
                       LET m == sm_report.matched_clauses[k]
                       IN  /\ \E w \in windows :
                                  ~Greater(_calculate_similarity(w, t), m.similarity_score)
                                  /\ ~Greater(m.similarity_score, _calculate_similarity(w, t))
                           /\ \A w \in windows : ~Greater(_calculate_similarity(w, t), m.similarity_score)
                           /\ m.match_type # "no_match"

\* A matched clause whose best window spans several sentences and beats
\* every window of one sentence, next to a template with enough keywords in
\* the text but no window above 0.2
C26_Witness ==
    /\ ComparisonReturned
    /\ \E t \in ApplicableTemplates(sm_type) : \E k \in MatchesOf(t) :
           \A w \in KeywordWindows(sm_text, t) :
               Len(w) = 1 => Greater(sm_report.matched_clauses[k].similarity_score, _calculate_similarity(w, t))
    /\ \E t \in ApplicableTemplates(sm_type) :
           /\ MatchesOf(t) = {}
           /\ KeywordWindows(sm_text, t) # {}

-----------------------------------------------------------------------------
(***************************************************************************)
(* ContractClassifier  (src/src/analysis/contract_classifier.py)           *)
(*                                                                         *)
(* A text is a sequence of sentences of a catalogue, joined by ". ".  The  *)
(* scores are Python floats.  A float is written <<n, e>>: n is the        *)
(* decimal it stands for in 1/100, e its distance, in units of the last    *)
(* place, from the float nearest to n/100; floats compare by n, then e.    *)
(* The rounding of each product and sum is tabulated from the arithmetic   *)
(* of the interpreter for every operation the bounded texts give rise to.  *)
(***************************************************************************)

\* Longest text, in sentences, handed to classify.
MaxMentions == 3

\* The sentences the texts handed to classify are made of.
ClassifierSentences ==
    { "this employment agreement", "the employee", "vendor to vendor to vendor",
      "the lease", "confidential", "signed between the parties" }

\* self.contract_indicators in declaration order, weight in 1/10.  Of each
\* type's keywords and patterns those that occur in the catalogue are listed,
\* in declaration order.
contract_indicators ==
    LET Indicators(contract_type, keywords, patterns, weight) ==
            [contract_type |-> contract_type, keywords |-> keywords, patterns |-> patterns, weight |-> weight]
    IN  << Indicators("Employment Agreement", <<"employment", "employee">>, <<"employment\\s+agreement">>, 10),
           Indicators("Vendor Contract", <<"vendor">>, <<>>, 10),
           Indicators("Lease Agreement", <<"lease">>, <<>>, 10),
           Indicators("Partnership Deed", <<>>, <<>>, 10),
           Indicators("Service Contract", <<>>, <<>>, 10),
           Indicators("Non-Disclosure Agreement", <<"confidential">>, <<>>, 12),
           Indicators("Consultancy Agreement", <<>>, <<>>, 10),
           Indicators("Supply Agreement", <<>>, <<>>, 10),
           Indicators("Franchise Agreement", <<>>, <<>>, 10),
           Indicators("Joint Venture Agreement", <<>>, <<>>, 10),
           Indicators("Loan Agreement", <<>>, <<>>, 10),
           Indicators("Shareholders Agreement", <<>>, <<>>, 10) >>

\* len(re.findall(...)) of a keyword (between word boundaries) or a pattern in
\* one sentence; no match spans two sentences.
occurrences(sentence, indicator) ==
    CASE sentence = "this employment agreement" /\ indicator \in {"employment", "employment\\s+agreement"} -> 1
      [] sentence = "the employee" /\ indicator = "employee" -> 1
      [] sentence = "vendor to vendor to vendor" /\ indicator = "vendor" -> 3
      [] sentence = "the lease" /\ indicator = "lease" -> 1
      [] sentence = "confidential" /\ indicator = "confidential" -> 1
      [] OTHER -> 0

\* _analyze_structure: the share of the 5 structural patterns found, in 1/100
_analyze_structure(text) ==
    LET found == UNION {IF text[i] = "signed between the parties"
                        THEN {"has_signatures", "has_parties"} ELSE {} : i \in DOMAIN text}
    IN  (100 * Cardinality(found)) \div 5

\* count * 0.1 as a float: 3, 6, 7, 12 and 14 tenths come out one unit high
times_tenth(count) == <<10 * count, IF count \in {3, 6, 7, 12, 14} THEN 1 ELSE 0>>

\* score + term as a float
float_add(score, term) ==
    LET sum == score[1] + term[1]
    IN  CASE score = <<0, 0>> -> term
          [] <<score, term>> \in {<< <<10, 0>>, <<20, 0>> >>, << <<20, 0>>, <<10, 0>> >>} -> <<sum, 1>>
          [] OTHER -> <<sum, 0>>

\* score * config["weight"] as a float
times_weight(score, weight) ==
    IF weight = 10 THEN score ELSE <<(score[1] * weight) \div 10, score[2]>>

RECURSIVE add_terms(_, _)
\* "score += ..." over the indicators found, in order
add_terms(score, terms) ==
    IF terms = <<>> THEN score
    ELSE add_terms(IF Head(terms)[1] > 0 THEN float_add(score, Head(terms)) ELSE score, Tail(terms))

\* A mutant of normalized_score: the scores are left as they are, as in the
\* branch taken when max_score is not positive.
normalized_score_raw(score, max_score) == Min(100, score[1])

\* "v / max_score", in 1/100: max_score / max_score is 1.0, and the quotient
\* of a float by a greater one is below 1.0
normalized_score(score, max_score) ==
    IF score = max_score THEN 100 ELSE Min(99, (100 * score[1]) \div max_score[1])

\* "(confidence * 0.8) + (structure_score * 0.2)" with confidence =
\* min(top score, 1.0), in 1/10000
adjusted_confidence(top_score, structure_score) ==
    80 * Min(top_score, 100) + 20 * structure_score

\* _generate_reasoning: the closing sentence of the reasoning, chosen by the
\* confidence (in 1/10000) it is handed before rounding
_generate_reasoning(contract_type, confidence) ==
    IF contract_type = "Unknown" THEN "Unable to determine contract type"
    ELSE IF confidence < 5000 THEN "Low confidence - consider manual review."
    ELSE IF confidence < 7500 THEN "Moderate confidence - verify classification."
    ELSE "High confidence classification."

\* classify: the ClassificationResult, confidence in 1/100, indicators_found
\* as its keys in insertion order, reasoning as its closing sentence
\* (secondary_types left out)
classify(text) ==
    LET count(indicator) == SeqSum([i \in DOMAIN text |-> occurrences(text[i], indicator)])
        score(config) ==
            times_weight(
                add_terms(<<0, 0>>,
                          [k \in DOMAIN config.keywords |-> times_tenth(count(config.keywords[k]))]
                          \o [k \in DOMAIN config.patterns |-> <<50 * count(config.patterns[k]), 0>>]),
                config.weight)
        scores == [t \in DOMAIN contract_indicators |-> score(contract_indicators[t])]
        less(a, b) == a[1] < b[1] \/ (a[1] = b[1] /\ a[2] < b[2])
        max_score == CHOOSE m \in {scores[t] : t \in DOMAIN scores} : \A t \in DOMAIN scores : ~less(m, scores[t])
        normalized_scores == [t \in DOMAIN scores |-> normalized_score(scores[t], max_score)]
        \* the stable sort keeps the first declared of the types with the top score
        top == CHOOSE t \in DOMAIN scores :
                   /\ \A u \in DOMAIN scores : normalized_scores[u] <= normalized_scores[t]
                   /\ \A u \in DOMAIN scores : normalized_scores[u] = normalized_scores[t] => t <= u
        confidence == adjusted_confidence(normalized_scores[top], _analyze_structure(text))
        found(config) ==
            \/ \E k \in DOMAIN config.keywords : count(config.keywords[k]) > 0
            \/ \E k \in DOMAIN config.patterns : count(config.patterns[k]) > 0
        indicators_found == SelectSeq(contract_indicators, found)
    IN  IF less(<<0, 0>>, max_score)
        THEN [contract_type |-> contract_indicators[top].contract_type,
              confidence |-> RoundHalfEven(confidence, 100),
              indicators_found |-> [k \in DOMAIN indicators_found |-> indicators_found[k].contract_type],
              reasoning |-> _generate_reasoning(contract_indicators[top].contract_type, confidence)]
        ELSE [contract_type |-> "Unknown", confidence |-> 0,
              indicators_found |-> [k \in DOMAIN indicators_found |-> indicators_found[k].contract_type],
              reasoning |-> _generate_reasoning("Unknown", 0)]

InitClassifier ==
    /\ phase = "ready"
    /\ Idle

\* One call of ContractClassifier.classify
Classify ==
    /\ phase = "ready"
    /\ \E text \in SeqsUpTo(ClassifierSentences, MaxMentions) :
        /\ kc_text' = text
        /\ kc_result' = classify(text)
    /\ phase' = "returned"
    /\ UNCHANGED besidesClassifier

\* The caller is done with the result; the classifier keeps nothing of it.
ReleaseClassifier ==
    /\ phase = "returned"
    /\ phase' = "ready"
    /\ kc_text' = <<>>
    /\ kc_result' = NoClassification
    /\ UNCHANGED besidesClassifier

NextClassifier == Classify \/ ReleaseClassifier

SpecClassifier == InitClassifier /\ [][NextClassifier]_vars

ClassificationReturned == phase = "returned" /\ kc_result # NoClassification

\* The weighted score of a type as the real number the scoring rule defines,
\* in 1/1000: weight * (0.1 per keyword occurrence + 0.5 per pattern match)
weighted_score(config, text) ==
    LET count(indicator) == SeqSum([i \in DOMAIN text |-> occurrences(text[i], indicator)])
    IN  config.weight * ( 10 * SeqSum([k \in DOMAIN config.keywords |-> count(config.keywords[k])])
                        + 50 * SeqSum([k \in DOMAIN config.patterns |-> count(config.patterns[k])]) )

\* C17: classify returns "Unknown" with confidence 0.0 exactly when no type has
\* a positive keyword/pattern score (the empty text included); otherwise it
\* returns the type with the highest weighted score, and of several types with
\* that score the one declared first in the indicator table.
C17_UnknownOrHighestScore ==
    ClassificationReturned =>
        LET score(t) == weighted_score(contract_indicators[t], kc_text)
            Types == DOMAIN contract_indicators
            none == \A t \in Types : score(t) = 0
        IN  /\ (kc_result.contract_type = "Unknown" /\ kc_result.confidence = 0) <=> none
            /\ ~none =>
                \E t \in Types :
                    /\ kc_result.contract_type = contract_indicators[t].contract_type
                    /\ \A u \in Types : score(u) <= score(t)
                    /\ \A u \in Types : score(u) = score(t) => t <= u

\* C29: a result whose contract_type is not "Unknown" has a confidence of at
\* least 0.8 and at most 1.0 (0.8 times the top normalized score, which is
\* 1.0, plus 0.2 times the structure score), so its reasoning never closes
\* with the low-confidence or the moderate-confidence sentence.
C29_KnownTypeConfidenceBand ==
    (ClassificationReturned /\ kc_result.contract_type # "Unknown") =>
        /\ 80 <= kc_result.confidence /\ kc_result.confidence <= 100
        /\ kc_result.confidence = 80 + (20 * _analyze_structure(kc_text)) \div 100
        /\ kc_result.reasoning = "High confidence classification."

\* A type named by a single keyword hit (raw score 0.1) in a text with
\* parties and signatures: confidence 0.88
C29_Witness ==
    /\ ClassificationReturned
    /\ kc_result.contract_type = "Lease Agreement"
    /\ Len(kc_text) = 2
    /\ _analyze_structure(kc_text) = 40
    /\ kc_result.confidence = 88

-----------------------------------------------------------------------------
(***************************************************************************)
(* A session: one instance of each analyzer serves call after call.  What  *)
(* lives on between calls is what the instances hold.  The rule tables     *)
(* that no statement of the source assigns to or changes in place are the  *)
(* definitions above; self.currency_patterns, whose loop variable          *)
(* extract_amounts overwrites, is the variable ee_currency_patterns.       *)
(***************************************************************************)

InitSession ==
    /\ phase = "ready"
    /\ Idle

\* The caller is done with the result of the last call; the instances stay.
ReleaseSession ==
    /\ phase = "returned"
    /\ phase' = "ready"
    /\ cp_text' = <<>> /\ cp_forest' = [clauses |-> <<>>, roots |-> <<>>]
    /\ ra_op' = "none" /\ ra_text' = <<>> /\ ra_clauses' = <<>> /\ ra_result' = <<>>
    /\ cc_type' = "" /\ cc_text' = {} /\ cc_report' = NoReport
    /\ ee_text' = <<>> /\ ee_ner' = FALSE /\ ee_entities' = NoEntities
    /\ sm_type' = "" /\ sm_text' = <<>> /\ sm_report' = NoComparison
    /\ kc_text' = <<>> /\ kc_result' = NoClassification
    /\ UNCHANGED ee_currency_patterns

NextSession ==
    \/ ParseClauses
    \/ ExtractAllEntities
    \/ Classify
    \/ AnalyzeContract
    \/ CheckCompliance
    \/ CompareToTemplate
    \/ ReleaseSession

SpecSession == InitSession /\ [][NextSession]_vars

-----------------------------------------------------------------------------
(***************************************************************************)
(* run_full_analysis  (src/app.py): steps 3 and 4, "Clause Parsing" and    *)
(* "Risk Analysis".  The text is parsed, a clause dict is made of every    *)
(* clause of the returned list, and the dicts (None when there is none)    *)
(* go to analyze_contract with the text.  The other steps of the function  *)
(* read the text and the classification alone and write other entries of   *)
(* the results; they are the calls of the sections above.                  *)
(*                                                                         *)
(* A text is a sequence of lines: two header lines of the parser's         *)
(* catalogue and two sentences of the risk catalogue that no header        *)
(* pattern accepts.  The content of a clause is its body lines joined by   *)
(* blanks; no risk pattern matches across two of these lines.              *)
(***************************************************************************)

PipelineLines ==
    {"1. DEFINITIONS", "1.1 Scope of work", "penalty of rs. 50,000", "non-compete"}

\* "for clause in clauses: clause_dicts.append({'id': clause.clause_id, ...,
\* 'text': clause.content})" over the list parse_clauses returned
clause_dicts(clauses) ==
    [k \in DOMAIN clauses |-> [id |-> clauses[k].clause_id, text |-> clauses[k].content]]

InitPipeline ==
    /\ phase = "ready"
    /\ Idle

\* Steps 3 and 4 of one run of run_full_analysis, on fresh instances
ClauseParsingAndRiskAnalysis ==
    /\ phase = "ready"
    /\ \E text \in NonEmptySeqs(PipelineLines, MaxLines) :
        LET forest == parse_clauses(text)
            dicts == clause_dicts(forest.roots)
        IN  /\ cp_text' = text
            /\ cp_forest' = forest
            /\ ra_text' = <<text>>
            /\ ra_clauses' = dicts
            /\ ra_result' = analyze_contract(<<text>>, dicts)
    /\ ra_op' = "analyze_contract"
    /\ phase' = "returned"
    /\ UNCHANGED <<ccVars, eeVars, smVars, kcVars>>

\* The results are shown; the next run starts from new instances.
ReleasePipeline ==
    /\ phase = "returned"
    /\ phase' = "ready"
    /\ cp_text' = <<>> /\ cp_forest' = NoForest
    /\ ra_op' = "none" /\ ra_text' = <<>> /\ ra_clauses' = <<>> /\ ra_result' = <<>>
    /\ UNCHANGED <<ccVars, eeVars, smVars, kcVars>>

NextPipeline == ClauseParsingAndRiskAnalysis \/ ReleasePipeline

SpecPipeline == InitPipeline /\ [][NextPipeline]_vars

\* the ClauseRisks made for the clause with the given id
RisksOf(id) == {i \in DOMAIN ra_result.clause_risks : ra_result.clause_risks[i].clause_id = id}

\* C30: in a run of the full analysis the content of every clause the parser
\* made, the sub-clauses of level 2 and 3 included, is handed to
\* analyze_contract and scored in exactly one ClauseRisk; no parsed clause is
\* left unscored.
C30_EveryParsedClauseScored ==
    (phase = "returned" /\ cp_forest.clauses # <<>>) =>
        \A k \in DOMAIN cp_forest.clauses :
            LET clause == cp_forest.clauses[k]
            IN  /\ Cardinality(RisksOf(clause.clause_id)) = 1
                /\ \A i \in RisksOf(clause.clause_id) :
                       ra_result.clause_risks[i] =
                           analyze_clause([id |-> clause.clause_id, text |-> clause.content])

=============================================================================
